---- MODULE Spec2Model ----
(***************************************************************************)
(* A model of the nexon inference server: the session cache                *)
(* (server/shared/model_cache.py), the resolver and orchestrator           *)
(* (server/shared/orchestrator.py) and the two transports                  *)
(* (server/rest/app/services/inference.py, server/grpc_service/server.py). *)
(*                                                                         *)
(* Scheduling.  The cache runs on one asyncio event loop.  A coroutine     *)
(* runs until it awaits something that is not ready.  asyncio.Lock.acquire *)
(* on a free lock with no live waiters returns without yielding, and the   *)
(* global lock is only ever held over await-free code, so it is never      *)
(* contended: `async with self._global_lock` never suspends.  The real     *)
(* suspension points of get_session are the wait for a busy per-key lock   *)
(* and the awaits on open_download_stream, read and close.  Each action    *)
(* below is the code between two suspension points.                        *)
(*                                                                         *)
(* time.time() is modelled as a clock that never goes backwards.  It is    *)
(* read only on entry to get_session (line 107), so time passes in the     *)
(* Call action: the call reads any time from the last reading onwards.     *)
(*                                                                         *)
(* Tasks and keys are interchangeable, so a fresh task slot or key is the  *)
(* lowest-numbered one that has not been used yet (FirstUse).              *)
(***************************************************************************)
EXTENDS Integers, Sequences, FiniteSets, TLC

\* ------------------------------------------------------------------ bounds
NumTasks == 2      \* coroutine slots that call get_session concurrently
NumKeys  == 2      \* distinct GridFS file ids
MaxTime  == 2      \* the clock runs 0..MaxTime
MaxCalls == 4      \* get_session calls in one behaviour
MaxCap   == 1      \* max_entries arguments tried: 1..MaxCap
MaxTtl   == 1      \* ttl_seconds arguments tried: 0..MaxTtl

Tasks == 1..NumTasks
Keys  == 1..NumKeys
None  == 0         \* Python None: no session, no lock holder

\* ------------------------------------------------------------- variables
VARIABLES
  max_,          \* ModelCache._max
  ttl_,          \* ModelCache._ttl
  cache,         \* ModelCache._cache: entries in dict insertion order
  lockHolder,    \* per key: the task inside `async with lk`, or None
  lockWaiters,   \* per key: tasks suspended in lk.acquire(), FIFO
  clock,         \* time.time()
  pc,            \* per task: position in get_session
  oid,           \* per task: the normalized key of the current call
  now,           \* per task: `now` captured at call entry
  ret,           \* per task: the session returned (None if none)
  how,           \* per task: what the call last logged: "miss" or "expired"
                 \* while in flight, then "hit", "hit_postlock", "load", "error"
  nextSess,      \* number of InferenceSession objects constructed so far
  opens,         \* per key: open_download_stream calls (history, see Count)
  reads,         \* per key: grid_out.read() calls (history, see Count)
  built,         \* per key: InferenceSession constructions (history, see Count)
  calls,         \* get_session calls started
  removed,       \* per key: an entry was dropped or a load failed (history)
  clean,         \* only sequential loading calls so far (history)
  loadSeq,       \* keys in order of load while clean (history)
  acc,           \* what the step just taken did to _cache and to the locks,
                 \* each with the mutexes its task held then (history)
  rd,            \* per task: how grid_out.read() of the current call ended
  cl,            \* per task: how grid_out.close() of the current call ended
  err            \* per task: which RuntimeError the call raised ("" if none)

cvars == <<max_, ttl_, cache, lockHolder, lockWaiters, clock, pc, oid, now,
           ret, how, nextSess, opens, reads, built, calls, removed, clean,
           loadSeq, acc, rd, cl, err>>

VARIABLES
  arg            \* per task: the file_id get_session was called with

nvars == <<arg>>

VARIABLES
  models,        \* the models collection: documents in storage order
  req,           \* the request being served (NoRequest if none yet)
  ppc,           \* position of the request: "idle", "resolving", "loading",
                 \* "validating", "done"
  file,          \* the ObjectId _resolve_deployed_file_id returned, or None
  sig,           \* input[0] and output[0] of the loaded session, or NoSig
  raised,        \* the exception class run/run_from_bytes raised, "none" if
                 \* it returned, "" while it has not been called or is running
  http,          \* REST: the HTTP status of the reply (0: no reply yet)
  code,          \* gRPC: the status code of the reply ("": no reply yet)
  ran            \* session.run was called for the request

pvars == <<models, req, ppc, file, sig, raised, http, code, ran>>

VARIABLES
  carr,          \* codec: the array that was encoded (NoArray if none)
  cbuf,          \* codec: tensor_content, a sequence of bytes
  cdims,         \* codec: dims
  ctag,          \* codec: the NumPy dtype of the content
  cout,          \* codec: the array _numpy_from_bytes returned
  cerr,          \* codec: the exception class it raised, "none" if none
  cpc            \* codec: "idle", "encoded", "received", "decoded"

xvars == <<carr, cbuf, cdims, ctag, cout, cerr, cpc>>

VARIABLES
  env,            \* serve: which environment settings parse
  spc,            \* serve: "starting", "waiting", "await_debug",
                  \* "await_readiness", "stopping", "returned", "exited"
  health,         \* the status the health servicer holds for each name
  shutting_down,  \* shutting_down["value"]
  shutdown_event, \* shutdown_event is set
  mon,            \* readiness task: "created", "pinging", "sleeping",
                  \* "failed", "cancelling", "cancelled"
  dbg,            \* debug task: "none", "running", "done", "cancelling",
                  \* "cancelled"
  client,         \* the metadata-store client: "open" or "closed"
  steps,          \* the shutdown steps performed so far (history)
  exitcode,       \* the exit status of the process (-1 while it runs)
  forced,         \* the process ended in _hard_exit (history)
  sraised,        \* an exception left the try block of serve (history)
  signals,        \* termination signals delivered so far
  pings,          \* readiness iterations completed so far
  lastPing        \* the outcome of the last ping: "none", "ok", "failed"

svars == <<env, spc, health, shutting_down, shutdown_event, mon, dbg, client,
           steps, exitcode, forced, sraised, signals, pings, lastPing>>

VARIABLES
  dpc,            \* per inventory request slot: the await it is suspended at
  dop,            \* per slot: the locals of the handler
  dres,           \* per slot: the HTTP status of its last reply (0: none)
  blobs,          \* the ids of the files in GridFS
  nextId,         \* the next _id the collection hands out
  nextFile,       \* the next file id GridFS hands out
  created,        \* name and version of every document inserted (history)
  ops             \* inventory requests accepted so far

dvars == <<dpc, dop, dres, blobs, nextId, nextFile, created, ops>>

\* the state of the request being served, without the collection
rvars == <<req, ppc, file, sig, raised, http, code, ran>>

vars == <<cvars, nvars, pvars, xvars, svars, dvars>>

\* what the steps of one component leave alone
exceptCache == <<nvars, pvars, xvars, svars, dvars>>

exceptSessions == <<pvars, xvars, svars, dvars>>

exceptPredict == <<cvars, nvars, xvars, svars, dvars>>

exceptCodec == <<cvars, nvars, pvars, svars, dvars>>

exceptServe == <<cvars, nvars, pvars, xvars, dvars>>

exceptCatalog == <<cvars, nvars, rvars, xvars, svars>>

\* ---------------------------------------------------------------- cache map
Entry(k, s, la, lu) == [oid |-> k, session |-> s, loaded_at |-> la, last_used |-> lu]

CacheKeys(c) == {c[i].oid : i \in 1..Len(c)}

IndexOf(c, k) == CHOOSE i \in 1..Len(c) : c[i].oid = k

\* dict.get(oid)
CacheGet(c, k) == c[IndexOf(c, k)]

\* dict.pop(oid, None)
CachePop(c, k) == SelectSeq(c, LAMBDA e : e.oid # k)

\* dict[oid] = value: an existing key keeps its place, a new one is appended
CacheSet(c, k, e) ==
  IF k \in CacheKeys(c)
    THEN [i \in 1..Len(c) |-> IF c[i].oid = k THEN e ELSE c[i]]
    ELSE Append(c, e)

\* (mutant) `<=` in the comparison of line 195: the last entry wins a tie
OldestIndexLastOnTie(c) ==
  CHOOSE i \in 1..Len(c) :
    /\ \A j \in 1..Len(c) : c[i].last_used <= c[j].last_used
    /\ \A j \in (i+1)..Len(c) : c[j].last_used > c[i].last_used

\* The inner for loop of _evict_if_needed: the first entry, in dict order,
\* whose last_used is smallest (strict < keeps the earliest on a tie).
OldestIndex(c) ==
  CHOOSE i \in 1..Len(c) :
    /\ \A j \in 1..Len(c) : c[i].last_used <= c[j].last_used
    /\ \A j \in 1..(i-1) : c[j].last_used > c[i].last_used

RemoveAt(c, i) == [j \in 1..(Len(c)-1) |-> IF j < i THEN c[j] ELSE c[j+1]]

RECURSIVE EvictLoop(_, _)
EvictLoop(c, m) ==
  IF Len(c) > m THEN EvictLoop(RemoveAt(c, OldestIndex(c)), m) ELSE c

\* (mutant) an off-by-one slip in the loop bound of line 190: one entry too many
EvictIfNeededOffByOne(c, m) == IF m <= 0 THEN c ELSE EvictLoop(c, m + 1)

EvictIfNeeded(c, m) == IF m <= 0 THEN c ELSE EvictLoop(c, m)

\* (mutant) the age is measured from last_used: a sliding expiry
ExpiredSliding(e, t, ttl) == ttl > 0 /\ (t - e.last_used) > ttl

\* (mutant) an entry whose age has just reached the TTL counts as expired
ExpiredAtTtl(e, t, ttl) == ttl > 0 /\ (t - e.loaded_at) >= ttl

Expired(e, t, ttl) == ttl > 0 /\ (t - e.loaded_at) > ttl

\* (mutant) the lookup never finds the entry
GetIfFreshAlwaysMiss(c, k, t, ttl) == [cache |-> c, sess |-> None]

\* _get_if_fresh: the cache afterwards and the session returned (None = miss)
GetIfFresh(c, k, t, ttl) ==
  IF k \notin CacheKeys(c)
    THEN [cache |-> c, sess |-> None]
    ELSE LET e == CacheGet(c, k) IN
         IF Expired(e, t, ttl)
           THEN [cache |-> CachePop(c, k), sess |-> None]
           ELSE [cache |-> CacheSet(c, k, Entry(k, e.session, e.loaded_at, t)),
                 sess  |-> e.session]

\* (mutant) no per-key lock: every caller goes straight to the load
LockAlwaysAvailable(k) == TRUE

\* (mutant) one lock serializes the loads of all keys
LockAvailableOneForAll(k) ==
  \A j \in Keys : lockHolder[j] = None /\ lockWaiters[j] = <<>>

\* (mutant) a free lock is taken at once even when callers are queued for it
LockAvailableBarging(k) == lockHolder[k] = None

\* asyncio.Lock.acquire takes the lock at once only if it is free and nobody
\* is queued for it
LockAvailable(k) == lockHolder[k] = None /\ lockWaiters[k] = <<>>

\* one access to _cache or one lock acquisition: `global` and `key` tell
\* whether the task held _global_lock and the per-key lock at that moment
Access(op, g, kl) == [op |-> op, global |-> g, key |-> kl]

\* _get_if_fresh line by line: the unguarded get of line 168, then the pop
\* of line 176 or the touch of line 183 inside `async with _global_lock`
GetIfFreshAccesses(c, k, t, ttl, kl) ==
  IF k \notin CacheKeys(c)
    THEN {Access("get", FALSE, kl)}
    ELSE IF Expired(CacheGet(c, k), t, ttl)
           THEN {Access("get", FALSE, kl), Access("acquire_global", FALSE, kl),
                 Access("pop", TRUE, kl)}
           ELSE {Access("get", FALSE, kl), Access("acquire_global", FALSE, kl),
                 Access("touch", TRUE, kl)}

\* lines 158-160: the insert and the eviction pass inside `async with _global_lock`
InsertAccesses(c, d, k) ==
  {Access("acquire_global", FALSE, TRUE), Access("insert", TRUE, TRUE)}
    \cup (IF (CacheKeys(c) \cup {k}) \ CacheKeys(d) # {}
           THEN {Access("evict", TRUE, TRUE)} ELSE {})

\* `async with lk` (line 116): the per-key lock is asked for with no lock held
AcquireKey == Access("acquire_key", FALSE, FALSE)

\* ------------------------------------------------------------ _normalize_id
\* An ObjectId is its bytes, here two hex digits: the key and the digit ten.
\* Its string form spells the digits, the letter in either case.
ObjectIdBytes(k) == <<k, 10>>

HexDigit(ch) ==
  CASE ch = "1" -> 1 [] ch = "2" -> 2 [] ch = "3" -> 3 [] ch = "4" -> 4
    [] ch = "a" -> 10 [] ch = "A" -> 10 [] OTHER -> -1

DigitChar(d) == CASE d = 1 -> "1" [] d = 2 -> "2" [] d = 3 -> "3" [] d = 4 -> "4" [] OTHER -> "a"

\* str(ObjectId): lower-case hex
StrOf(bytes) == [i \in 1..Len(bytes) |-> DigitChar(bytes[i])]

Upper(str) == [i \in 1..Len(str) |-> IF str[i] = "a" THEN "A" ELSE str[i]]

\* a file_id as a caller passes it: an ObjectId or a string
FileId(type, value) == [type |-> type, value |-> value]

NoFileId == FileId("none", <<>>)

\* the representations of key k, and strings that are no ObjectId
FileIdsOf(k) ==
  {FileId("ObjectId", ObjectIdBytes(k)), FileId("str", StrOf(ObjectIdBytes(k))),
   FileId("str", Upper(StrOf(ObjectIdBytes(k))))}

BadFileIds == {FileId("str", <<"z", "a">>), FileId("str", <<"1">>), FileId("str", <<>>)}

FileIds == UNION {FileIdsOf(k) : k \in Keys} \cup BadFileIds

\* ObjectId(s): the bytes a well-formed hex string spells, else InvalidId
ParseObjectId(str) ==
  IF Len(str) = 2 /\ \A i \in 1..Len(str) : HexDigit(str[i]) >= 0
    THEN [ok |-> TRUE, bytes |-> [i \in 1..Len(str) |-> HexDigit(str[i])]]
    ELSE [ok |-> FALSE, bytes |-> <<>>]

\* _normalize_id: an ObjectId as it is, anything else through ObjectId(str(.));
\* InvalidId is re-raised as ValueError
NormalizeId(f) ==
  IF f.type = "ObjectId" THEN [err |-> "none", oid |-> f.value]
  ELSE IF ParseObjectId(f.value).ok
         THEN [err |-> "none", oid |-> ParseObjectId(f.value).bytes]
         ELSE [err |-> "ValueError", oid |-> <<>>]

\* the cache key (dict key) of an ObjectId
KeyOf(bytes) == CHOOSE k \in Keys : ObjectIdBytes(k) = bytes

\* ------------------------------------------------------------ construction
DefaultCacheMax == 64
DefaultCacheTtl == 0

\* an optional int argument: not given (None), or a value
NoArg == [given |-> FALSE, value |-> 0]
Arg(v) == [given |-> TRUE, value |-> v]

\* `x or default`: None and 0 are both falsy
PyOr(x, default) == IF ~x.given \/ x.value = 0 THEN default ELSE x.value

\* ModelCache.__init__
CtorMax(max_entries, env_max) == PyOr(max_entries, env_max)
CtorTtl(ttl_seconds, env_ttl) == PyOr(ttl_seconds, env_ttl)

TaskInit ==
  /\ acc = {}
  /\ rd = [t \in Tasks |-> "none"]
  /\ cl = [t \in Tasks |-> "none"]
  /\ err = [t \in Tasks |-> ""]
  /\ pc = [t \in Tasks |-> "idle"]
  /\ oid = [t \in Tasks |-> None]
  /\ now = [t \in Tasks |-> 0]
  /\ ret = [t \in Tasks |-> None]
  /\ how = [t \in Tasks |-> "none"]

\* the cache right after construction: nothing loaded, no call started
CacheEmpty ==
  /\ arg = [t \in Tasks |-> NoFileId]
  /\ cache = <<>>
  /\ lockHolder = [k \in Keys |-> None]
  /\ lockWaiters = [k \in Keys |-> <<>>]
  /\ clock = 0
  /\ TaskInit
  /\ nextSess = 0
  /\ opens = [k \in Keys |-> 0]
  /\ reads = [k \in Keys |-> 0]
  /\ built = [k \in Keys |-> 0]
  /\ calls = 0
  /\ removed = [k \in Keys |-> FALSE]
  /\ clean = TRUE
  /\ loadSeq = <<>>

\* the cache built with its capacity set to zero and no expiry: max_entries=0
\* with any MODEL_CACHE_MAX, or no argument with MODEL_CACHE_MAX=0
ZeroCapacityInit ==
  /\ \E max_entries \in {NoArg, Arg(0)}, env_max \in {0, DefaultCacheMax} :
       /\ max_entries.given \/ env_max = 0
       /\ max_ = CtorMax(max_entries, env_max)
  /\ \E ttl_seconds \in {NoArg, Arg(0)} : ttl_ = CtorTtl(ttl_seconds, DefaultCacheTtl)
  /\ CacheEmpty

\* the cache built with max_entries <= 0 and ttl_seconds = 0, under
\* environments that set MODEL_CACHE_MAX and MODEL_CACHE_TTL or leave them
DisabledInit ==
  /\ \E max_entries \in {Arg(0), Arg(-1)}, env_max \in {1, DefaultCacheMax} :
       max_ = CtorMax(max_entries, env_max)
  /\ \E env_ttl \in {DefaultCacheTtl, 1} : ttl_ = CtorTtl(Arg(0), env_ttl)
  /\ CacheEmpty

CacheInit ==
  /\ \E max_entries \in 1..MaxCap : max_ = CtorMax(Arg(max_entries), DefaultCacheMax)
  /\ \E ttl_seconds \in 0..MaxTtl : ttl_ = CtorTtl(Arg(ttl_seconds), DefaultCacheTtl)
  /\ CacheEmpty

\* ------------------------------------------------------------- get_session
InFlight(t) == pc[t] \in {"waiting", "opening", "reading", "closing_ok", "closing_err"}

\* keys of c that are no longer keys of d
Dropped(c, d) == CacheKeys(c) \ CacheKeys(d)

\* History.  removed[k] records that an entry of k was dropped (expiry,
\* eviction, invalidate, clear) or that a load of k failed.  The counters
\* follow a key from the construction of the cache up to that moment and are
\* parked at 0 from then on.
Park(ctr) == [j \in Keys |-> IF removed'[j] THEN 0 ELSE ctr[j]]
Inc(ctr, k) == [ctr EXCEPT ![k] = @ + 1]
History(ks, o, r, b) ==
  /\ removed' = [k \in Keys |-> removed[k] \/ k \in ks]
  /\ opens' = Park(o)
  /\ reads' = Park(r)
  /\ built' = Park(b)
NoHistory == UNCHANGED <<removed, opens, reads, built>>

\* History for the LRU scenario: `clean` holds while the only thing that has
\* happened is get_session calls that ran one after another and each loaded;
\* loadSeq lists their keys.
Dirty == clean' = FALSE /\ loadSeq' = <<>>

\* the outcome of close(): an error of its own is swallowed (lines 144-147)
CloseOver(t) ==
  \E closeOk \in BOOLEAN : cl' = [cl EXCEPT ![t] = IF closeOk THEN "ok" ELSE "raised"]

\* leaving `async with lk`
Release(k) == lockHolder' = [lockHolder EXCEPT ![k] = None]

\* get_session returns or raises: its locals are gone
Finish(t, s, tag) ==
  /\ pc' = [pc EXCEPT ![t] = "done"]
  /\ ret' = [ret EXCEPT ![t] = s]
  /\ how' = [how EXCEPT ![t] = tag]

\* (mutant) the error leaves get_session with the per-key lock still held
RaiseErrorKeepsLock(t) ==
  /\ Finish(t, None, "error")
  /\ now' = [now EXCEPT ![t] = 0]
  /\ History({oid[t]}, opens, reads, built)
  /\ Dirty
  /\ acc' = {}
  /\ UNCHANGED <<max_, ttl_, cache, lockHolder, lockWaiters, clock, oid, nextSess, calls>>

\* the RuntimeError of line 134 or 156 leaves get_session
RaiseError(t) ==
  /\ Finish(t, None, "error")
  /\ now' = [now EXCEPT ![t] = 0]
  /\ Release(oid[t])
  /\ History({oid[t]}, opens, reads, built)
  /\ Dirty
  /\ acc' = {}
  /\ UNCHANGED <<max_, ttl_, cache, lockWaiters, clock, oid, nextSess, calls>>

\* Symmetry: an unused task slot is taken only when every lower slot is in
\* use, and a key is first asked for only when every lower key has been.
KeyUsed(k) == opens[k] > 0 \/ removed[k] \/ \E u \in Tasks : oid[u] = k
FirstUse(t, k) ==
  /\ pc[t] = "idle" => \A u \in Tasks : u < t => pc[u] # "idle"
  /\ ~KeyUsed(k) => \A j \in Keys : j < k => KeyUsed(j)

\* get_session, lines 106-129: from the call to its return on a hit, or to its
\* first suspension (a busy per-key lock, or the opening of the download)
Call(t, k, tnow) ==
  /\ pc[t] \in {"idle", "done"}
  /\ FirstUse(t, k)
  /\ calls < MaxCalls
  /\ calls' = calls + 1
  /\ oid' = [oid EXCEPT ![t] = k]
  /\ clock' = tnow
  /\ rd' = [rd EXCEPT ![t] = "none"]
  /\ cl' = [cl EXCEPT ![t] = "none"]
  /\ err' = [err EXCEPT ![t] = ""]
  /\ LET r == GetIfFresh(cache, k, tnow, ttl_)
         first == GetIfFreshAccesses(cache, k, tnow, ttl_, FALSE)
         gone == Dropped(cache, r.cache) IN
       /\ cache' = r.cache
       /\ IF r.sess # None
            THEN /\ Finish(t, r.sess, "hit")
                 /\ now' = [now EXCEPT ![t] = 0]
                 /\ Dirty
                 /\ NoHistory
                 /\ acc' = first
                 /\ UNCHANGED <<lockHolder, lockWaiters>>
            ELSE /\ now' = [now EXCEPT ![t] = tnow]
                 /\ clean' = (clean /\ gone = {} /\ \A u \in Tasks : ~InFlight(u))
                 /\ loadSeq' = IF clean' THEN loadSeq ELSE <<>>
                 /\ ret' = [ret EXCEPT ![t] = None]
                 /\ how' = [how EXCEPT ![t] = IF gone # {} THEN "expired" ELSE "miss"]
                 /\ IF LockAvailable(k)
                      THEN \* the re-check of line 118 sees what line 109 left
                           /\ GetIfFresh(r.cache, k, tnow, ttl_).sess = None
                           /\ lockHolder' = [lockHolder EXCEPT ![k] = t]
                           /\ pc' = [pc EXCEPT ![t] = "opening"]
                           /\ History(gone, Inc(opens, k), reads, built)
                           /\ acc' = first \cup {AcquireKey}
                                       \cup GetIfFreshAccesses(r.cache, k, tnow, ttl_, TRUE)
                           /\ UNCHANGED lockWaiters
                      ELSE /\ lockWaiters' = [lockWaiters EXCEPT ![k] = Append(@, t)]
                           /\ pc' = [pc EXCEPT ![t] = "waiting"]
                           /\ History(gone, opens, reads, built)
                           /\ acc' = first \cup {AcquireKey}
                           /\ UNCHANGED lockHolder
  /\ UNCHANGED <<max_, ttl_, nextSess>>

\* get_session called with a file_id in any representation (line 106)
GetSession(t, f, tnow) ==
  /\ arg' = [arg EXCEPT ![t] = f]
  /\ IF NormalizeId(f).err = "none"
     THEN Call(t, KeyOf(NormalizeId(f).oid), tnow)
     ELSE \* ValueError leaves get_session before `now`, the lookup and the lock
          /\ pc[t] \in {"idle", "done"}
          /\ pc[t] = "idle" => \A u \in Tasks : u < t => pc[u] # "idle"
          /\ calls < MaxCalls
          /\ calls' = calls + 1
          /\ Finish(t, None, "error")
          /\ err' = [err EXCEPT ![t] = NormalizeId(f).err]
          /\ oid' = [oid EXCEPT ![t] = None]
          /\ now' = [now EXCEPT ![t] = 0]
          /\ rd' = [rd EXCEPT ![t] = "none"]
          /\ cl' = [cl EXCEPT ![t] = "none"]
          /\ acc' = {}
          /\ Dirty
          /\ NoHistory
          /\ UNCHANGED <<max_, ttl_, cache, lockHolder, lockWaiters, clock, nextSess>>

\* lines 116-129: the first waiter gets the released lock and re-checks
Wake(t) ==
  /\ pc[t] = "waiting"
  /\ LET k == oid[t]
         r == GetIfFresh(cache, k, now[t], ttl_)
         gone == Dropped(cache, r.cache) IN
       /\ lockHolder[k] = None
       /\ lockWaiters[k] # <<>>
       /\ Head(lockWaiters[k]) = t
       /\ lockWaiters' = [lockWaiters EXCEPT ![k] = Tail(@)]
       /\ cache' = r.cache
       /\ acc' = GetIfFreshAccesses(cache, k, now[t], ttl_, TRUE)
       /\ Dirty
       /\ IF r.sess # None
            THEN /\ Finish(t, r.sess, "hit_postlock")
                 /\ now' = [now EXCEPT ![t] = 0]
                 /\ NoHistory
                 /\ UNCHANGED lockHolder
            ELSE /\ lockHolder' = [lockHolder EXCEPT ![k] = t]
                 /\ pc' = [pc EXCEPT ![t] = "opening"]
                 /\ History(gone, Inc(opens, k), reads, built)
                 /\ how' = [how EXCEPT ![t] = IF gone # {} THEN "expired" ELSE @]
                 /\ UNCHANGED <<ret, now>>
  /\ UNCHANGED <<max_, ttl_, clock, oid, nextSess, calls, rd, cl, err>>

\* line 129 returns a stream; line 130 starts reading it
OpenOk(t) ==
  /\ pc[t] = "opening"
  /\ pc' = [pc EXCEPT ![t] = "reading"]
  /\ History({}, opens, Inc(reads, oid[t]), built)
  /\ acc' = {}
  /\ UNCHANGED <<max_, ttl_, cache, lockHolder, lockWaiters, clock, oid, now,
                 ret, how, nextSess, calls, clean, loadSeq, rd, cl, err>>

\* line 129 raises: grid_out is None, nothing to close, RuntimeError (line 134)
OpenFail(t) ==
  /\ pc[t] = "opening"
  /\ RaiseError(t)
  /\ err' = [err EXCEPT ![t] = "read"]
  /\ UNCHANGED <<rd, cl>>

\* line 130 returns or raises; the finally block awaits close() (lines 135-143)
ReadDone(t, ok) ==
  /\ pc[t] = "reading"
  /\ pc' = [pc EXCEPT ![t] = IF ok THEN "closing_ok" ELSE "closing_err"]
  /\ rd' = [rd EXCEPT ![t] = IF ok THEN "ok" ELSE "failed"]
  /\ cl' = [cl EXCEPT ![t] = "awaited"]
  /\ acc' = {}
  /\ NoHistory
  /\ UNCHANGED <<max_, ttl_, cache, lockHolder, lockWaiters, clock, oid, now,
                 ret, how, nextSess, calls, clean, loadSeq, err>>

\* close() is over (an error of its own is swallowed, lines 144-147) after a
\* failed read: the RuntimeError of line 134 leaves get_session
CloseAfterFailedRead(t) ==
  /\ pc[t] = "closing_err"
  /\ RaiseError(t)
  /\ CloseOver(t)
  /\ err' = [err EXCEPT ![t] = "read"]
  /\ UNCHANGED rd

\* (mutant) the failure is remembered: a None session is cached for the key
ConstructFailCached(t) ==
  /\ pc[t] = "closing_ok"
  /\ Finish(t, None, "error")
  /\ now' = [now EXCEPT ![t] = 0]
  /\ Release(oid[t])
  /\ cache' = CacheSet(cache, oid[t], Entry(oid[t], None, now[t], now[t]))
  /\ History({oid[t]}, opens, reads, built)
  /\ Dirty
  /\ acc' = {}
  /\ CloseOver(t)
  /\ err' = [err EXCEPT ![t] = "construct"]
  /\ UNCHANGED <<max_, ttl_, lockWaiters, clock, oid, nextSess, calls, rd>>

\* close() is over after a good read, ort.InferenceSession raises (line 156)
ConstructFail(t) ==
  /\ pc[t] = "closing_ok"
  /\ RaiseError(t)
  /\ CloseOver(t)
  /\ err' = [err EXCEPT ![t] = "construct"]
  /\ UNCHANGED rd

\* (mutant) a capacity of zero keeps nothing: the session is returned uncached
InsertAndEvictBypass(c, k, s, t, m) ==
  IF m <= 0 THEN c ELSE EvictIfNeeded(CacheSet(c, k, Entry(k, s, t, t)), m)

\* lines 158-160: the insert and the eviction pass, under the global lock
InsertAndEvict(c, k, s, t, m) == EvictIfNeeded(CacheSet(c, k, Entry(k, s, t, t)), m)

\* close() is over after a good read; the session is built, cached, returned
LoadComplete(t) ==
  /\ pc[t] = "closing_ok"
  /\ LET k == oid[t]
         s == nextSess + 1
         c == InsertAndEvict(cache, k, s, now[t], max_) IN
       /\ nextSess' = s
       /\ cache' = c
       /\ acc' = InsertAccesses(cache, c, k)
       /\ History((CacheKeys(cache) \cup {k}) \ CacheKeys(c), opens, reads, Inc(built, k))
       /\ Release(k)
       /\ Finish(t, s, "load")
       /\ now' = [now EXCEPT ![t] = 0]
       /\ clean' = clean
       /\ loadSeq' = IF clean THEN Append(loadSeq, k) ELSE <<>>
  /\ CloseOver(t)
  /\ UNCHANGED <<max_, ttl_, lockWaiters, clock, oid, calls, rd, err>>

\* ------------------------------------------------- get_session: cancellation
\* CancelledError is not an Exception: no `except Exception` clause catches
\* it, the finally clause and the `async with` blocks run as it passes.

\* CancelledError leaves get_session: the call is over, nothing is returned
Cancelled(t) ==
  /\ Finish(t, None, "cancelled")
  /\ now' = [now EXCEPT ![t] = 0]
  /\ Dirty
  /\ acc' = {}

\* (mutant) the cancelled task goes away with the per-key lock still held
CancelledHolderKeepsLock(t) ==
  /\ Cancelled(t)
  /\ History({oid[t]}, opens, reads, built)
  /\ UNCHANGED <<max_, ttl_, cache, lockHolder, lockWaiters, clock, oid, nextSess, calls>>

\* CancelledError leaves `async with lk` (line 116) of the task holding the lock
CancelledHolder(t) ==
  /\ Cancelled(t)
  /\ Release(oid[t])
  /\ History({oid[t]}, opens, reads, built)
  /\ UNCHANGED <<max_, ttl_, cache, lockWaiters, clock, oid, nextSess, calls>>

\* cancelled while suspended in lk.acquire(): the waiter leaves the queue
CancelWaiting(t) ==
  /\ pc[t] = "waiting"
  /\ Cancelled(t)
  /\ lockWaiters' = [lockWaiters EXCEPT ![oid[t]] = SelectSeq(@, LAMBDA u : u # t)]
  /\ NoHistory
  /\ UNCHANGED <<max_, ttl_, cache, lockHolder, clock, oid, nextSess, calls, rd, cl, err>>

\* cancelled in open_download_stream (line 129): grid_out is None, no close
CancelOpening(t) ==
  /\ pc[t] = "opening"
  /\ CancelledHolder(t)
  /\ UNCHANGED <<rd, cl, err>>

\* cancelled in grid_out.read() (line 130): the finally clause awaits close()
CancelReading(t) ==
  /\ pc[t] = "reading"
  /\ pc' = [pc EXCEPT ![t] = "closing_cancelled"]
  /\ rd' = [rd EXCEPT ![t] = "cancelled"]
  /\ cl' = [cl EXCEPT ![t] = "awaited"]
  /\ acc' = {}
  /\ NoHistory
  /\ UNCHANGED <<max_, ttl_, cache, lockHolder, lockWaiters, clock, oid, now,
                 ret, how, nextSess, calls, clean, loadSeq, err>>

\* close() is over after a cancelled read: CancelledError leaves get_session
CloseAfterCancelledRead(t) ==
  /\ pc[t] = "closing_cancelled"
  /\ CancelledHolder(t)
  /\ CloseOver(t)
  /\ UNCHANGED <<rd, err>>

\* cancelled in `await result` (line 143): CancelledError leaves the finally
\* clause in place of whatever was pending
CancelClosing(t) ==
  /\ pc[t] \in {"closing_ok", "closing_err", "closing_cancelled"}
  /\ CancelledHolder(t)
  /\ cl' = [cl EXCEPT ![t] = "cancelled"]
  /\ UNCHANGED <<rd, err>>

\* ------------------------------------------ get_session: a synchronous close
\* grid_out.close() that returns no coroutine (lines 141-143): read() returns
\* or raises and get_session runs on to its end without another suspension

\* read() raises, close() is called at once, RuntimeError (line 134)
ReadFailSyncClose(t) ==
  /\ pc[t] = "reading"
  /\ RaiseError(t)
  /\ CloseOver(t)
  /\ rd' = [rd EXCEPT ![t] = "failed"]
  /\ err' = [err EXCEPT ![t] = "read"]

\* read() returns, close() is called at once, ort.InferenceSession raises
ReadOkSyncCloseConstructFail(t) ==
  /\ pc[t] = "reading"
  /\ RaiseError(t)
  /\ CloseOver(t)
  /\ rd' = [rd EXCEPT ![t] = "ok"]
  /\ err' = [err EXCEPT ![t] = "construct"]

\* read() returns, close() is called at once, the session is built and cached
ReadOkSyncCloseLoad(t) ==
  /\ pc[t] = "reading"
  /\ LET k == oid[t]
         s == nextSess + 1
         c == InsertAndEvict(cache, k, s, now[t], max_) IN
       /\ nextSess' = s
       /\ cache' = c
       /\ acc' = InsertAccesses(cache, c, k)
       /\ History((CacheKeys(cache) \cup {k}) \ CacheKeys(c), opens, reads, Inc(built, k))
       /\ Release(k)
       /\ Finish(t, s, "load")
       /\ now' = [now EXCEPT ![t] = 0]
       /\ Dirty
  /\ CloseOver(t)
  /\ rd' = [rd EXCEPT ![t] = "ok"]
  /\ UNCHANGED <<max_, ttl_, lockWaiters, clock, oid, calls, err>>

\* ------------------------------ get_session of app/services/shared/model_cache
\* The older ModelCache, still used by app/services/inference.py and by
\* grpc_server.py and grpc_server_async.py: the same lookup, locks, insert
\* and eviction, but the load has no finally clause and never calls close().

\* read() raises: RuntimeError, the stream is left open
LegacyReadFail(t) ==
  /\ pc[t] = "reading"
  /\ RaiseError(t)
  /\ rd' = [rd EXCEPT ![t] = "failed"]
  /\ err' = [err EXCEPT ![t] = "read"]
  /\ UNCHANGED cl

\* read() returns, ort.InferenceSession raises: the stream is left open
LegacyConstructFail(t) ==
  /\ pc[t] = "reading"
  /\ RaiseError(t)
  /\ rd' = [rd EXCEPT ![t] = "ok"]
  /\ err' = [err EXCEPT ![t] = "construct"]
  /\ UNCHANGED cl

\* read() returns, the session is built, cached and returned
LegacyLoadComplete(t) ==
  /\ pc[t] = "reading"
  /\ LET k == oid[t]
         s == nextSess + 1
         c == InsertAndEvict(cache, k, s, now[t], max_) IN
       /\ nextSess' = s
       /\ cache' = c
       /\ acc' = InsertAccesses(cache, c, k)
       /\ History((CacheKeys(cache) \cup {k}) \ CacheKeys(c), opens, reads, Inc(built, k))
       /\ Release(k)
       /\ Finish(t, s, "load")
       /\ now' = [now EXCEPT ![t] = 0]
       /\ Dirty
  /\ rd' = [rd EXCEPT ![t] = "ok"]
  /\ UNCHANGED <<max_, ttl_, lockWaiters, clock, oid, calls, cl, err>>

\* ModelCache.invalidate
Invalidate(k) ==
  /\ k \in CacheKeys(cache)
  /\ cache' = CachePop(cache, k)
  /\ acc' = {Access("pop", FALSE, FALSE)}
  /\ History({k}, opens, reads, built)
  /\ Dirty
  /\ UNCHANGED <<max_, ttl_, lockHolder, lockWaiters, clock, pc, oid, now, ret,
                 how, nextSess, calls, rd, cl, err>>

\* (mutant) clear() also forgets the per-key locks
ClearWithLocks ==
  /\ cache # <<>>
  /\ cache' = <<>>
  /\ lockHolder' = [k \in Keys |-> None]
  /\ acc' = {Access("clear", FALSE, FALSE)}
  /\ History(CacheKeys(cache), opens, reads, built)
  /\ Dirty
  /\ UNCHANGED <<max_, ttl_, lockWaiters, clock, pc, oid, now, ret,
                 how, nextSess, calls, rd, cl, err>>

\* ModelCache.clear
Clear ==
  /\ cache # <<>>
  /\ cache' = <<>>
  /\ acc' = {Access("clear", FALSE, FALSE)}
  /\ History(CacheKeys(cache), opens, reads, built)
  /\ Dirty
  /\ UNCHANGED <<max_, ttl_, lockHolder, lockWaiters, clock, pc, oid, now, ret,
                 how, nextSess, calls, rd, cl, err>>

\* ======================================================================
\* Predict: the resolver, the orchestrator and the two transports

\* ------------------------------------------------------ predict: the domain
MaxRecords == 2    \* documents in the models collection

ModelNames == {"a.onnx", "b.onnx"}

\* model_name values a client sends; the JSON route cannot match an empty one
RequestNames == {"", " ", "a.onnx", " a.onnx", "b.onnx"}

\* str.strip() on RequestNames
Strip(s) ==
  CASE s = " " -> ""
    [] s = " a.onnx" -> "a.onnx"
    [] OTHER -> s

Statuses == {"Uploaded", "Deployed"}

\* str(file_id) as upload_file stores it, and ObjectId(...) of such a string
StrOfObjectId(k) == [hex |-> k]

ObjectIdOf(s) == s.hex

Doc(id, n, v, f, s) == [id |-> id, name |-> n, version |-> v, file_id |-> f, status |-> s]

\* upload_file: a new version is the latest of the name plus one, which with
\* no deletions is the number of documents of the name so far
VersionAt(ns, i) == Cardinality({j \in 1..i : ns[j][1] = ns[i][1]})

\* a collection as uploads and deployments leave it: one blob per document
Collection(ns) ==
  [i \in 1..Len(ns) |-> Doc(i, ns[i][1], VersionAt(ns, i), StrOfObjectId(i), ns[i][2])]

Collections ==
  {Collection(ns) : ns \in UNION {[1..n -> ModelNames \X Statuses] : n \in 0..MaxRecords}}

\* enum DataType of the RPC messages, and one value outside the enum
DataTypes == {"DT_UNSPECIFIED", "DT_FLOAT32", "DT_FLOAT64", "DT_INT32",
              "DT_INT64", "DT_BOOL", "DT_STRING", "DT_7"}

DT_UNSPECIFIED_SENTINEL == "unspecified"

DT_UNSUPPORTED_SENTINEL == "unsupported"

\* PROTO_TO_NP.get(data_type, DT_UNSUPPORTED_SENTINEL)
PROTO_TO_NP(dt) ==
  CASE dt = "DT_UNSPECIFIED" -> DT_UNSPECIFIED_SENTINEL
    [] dt = "DT_FLOAT32" -> "float32"
    [] dt = "DT_FLOAT64" -> "float64"
    [] dt = "DT_INT32" -> "int32"
    [] dt = "DT_INT64" -> "int64"
    [] dt = "DT_BOOL" -> "bool"
    [] OTHER -> DT_UNSUPPORTED_SENTINEL

\* the dtype tags of the JSON route ("None": the field is absent)
DtypeTags == {"None", "float32", "int64"}

\* ONNX_TO_NP.get(onnx_dt): the NumPy dtype, or "None"
ONNX_TO_NP(t) ==
  CASE t \in {"tensor(float)", "tensor(float32)"} -> "float32"
    [] t \in {"tensor(double)", "tensor(float64)"} -> "float64"
    [] t = "tensor(int64)" -> "int64"
    [] t = "tensor(int32)" -> "int32"
    [] t \in {"tensor(bool)", "tensor(boolean)"} -> "bool"
    [] OTHER -> "None"

\* dtype.itemsize, 1 for bool
ElemSize(d) ==
  CASE d \in {"float32", "int32"} -> 4
    [] d \in {"float64", "int64"} -> 8
    [] OTHER -> 1

\* a declared dimension: an integer, None, or a symbolic name
IntDim(n) == [k |-> "int", v |-> n]

NoneDim == [k |-> "none", v |-> 0]

SymDim == [k |-> "str", v |-> 0]

IsWildcard(e) == e.k = "none" \/ (e.k = "int" /\ e.v = -1) \/ e.k = "str"

\* _shape_compatible(expected, actual)
ShapeCompatible(exp, act) ==
  /\ Len(exp) = Len(act)
  /\ \A i \in 1..Len(exp) : IsWildcard(exp[i]) \/ exp[i].v = act[i]

RECURSIVE Prod(_)
Prod(ds) == IF ds = <<>> THEN 1 ELSE Head(ds) * Prod(Tail(ds))

\* _numpy_from_bytes(buf, dims, dtype): the exception class, or "none"
NumpyFromBytes(nbytes, dims, dtype) ==
  IF dims = <<>> THEN "InvalidInputError"
  ELSE IF nbytes # Prod(dims) * ElemSize(dtype) THEN "InvalidInputError"
  ELSE IF \E i \in 1..Len(dims) : dims[i] < 0 THEN "ValueError"   \* reshape
  ELSE "none"

\* what the requests and the loaded models range over
RequestDims == {<<>>, <<2>>, <<1, 2>>, <<-1, -2>>}

ContentSizes == {8, 16}

InputNames == {"", "x", "y"}

SigTypes == {"tensor(float)", "tensor(int64)", "tensor(string)"}

SigShapes == {<<>>, <<IntDim(2)>>, <<SymDim, IntDim(2)>>}

Sig(n, t, s) == [name |-> n, type |-> t, shape |-> s]

Sigs == {Sig("x", t, s) : t \in SigTypes, s \in SigShapes}

NoSig == Sig("", "", <<>>)

Request(tr, mn, ds, dt) == [transport |-> tr, model_name |-> mn, dims |-> ds, data_type |-> dt]

NoRequest == Request("none", "", <<>>, "None")

\* ------------------------------------------------------------ the resolver
\* find({"name": model_name}).to_list(None): exact match, storage order
ByName(ms, n) == SelectSeq(ms, LAMBDA d : d.name = n)

IsDeployed(d) == d.status = "Deployed"

\* the document at which `for d in docs` returns
FirstDeployed(docs) ==
  docs[CHOOSE i \in 1..Len(docs) :
         IsDeployed(docs[i]) /\ \A j \in 1..(i - 1) : ~IsDeployed(docs[j])]

Resolved(e, f) == [err |-> e, id |-> f]

ResolveLastDeployed(ms, n) ==
  LET docs == ByName(ms, n)
      last == CHOOSE i \in 1..Len(docs) :
                IsDeployed(docs[i]) /\ \A j \in (i + 1)..Len(docs) : ~IsDeployed(docs[j])
  IN  IF docs = <<>> THEN Resolved("ModelNotFoundError", None)
      ELSE IF \E i \in 1..Len(docs) : IsDeployed(docs[i])
           THEN Resolved("none", ObjectIdOf(docs[last].file_id))
           ELSE Resolved("ModelNotDeployedError", None)

ResolveDeployedQuery(ms, n) ==
  LET docs == SelectSeq(ByName(ms, n), IsDeployed)
  IN  IF docs = <<>> THEN Resolved("ModelNotFoundError", None)
      ELSE Resolved("none", ObjectIdOf(docs[1].file_id))

\* (mutant) a document whose session is cached resolves without the status
\* being looked at
ResolveCachedFirst(ms, n) ==
  LET docs == ByName(ms, n)
      hot  == {i \in 1..Len(docs) : ObjectIdOf(docs[i].file_id) \in CacheKeys(cache)}
  IN  IF docs = <<>> THEN Resolved("ModelNotFoundError", None)
      ELSE IF hot # {}
           THEN Resolved("none", ObjectIdOf(docs[CHOOSE i \in hot : TRUE].file_id))
           ELSE IF \E i \in 1..Len(docs) : IsDeployed(docs[i])
                THEN Resolved("none", ObjectIdOf(FirstDeployed(docs).file_id))
                ELSE Resolved("ModelNotDeployedError", None)

\* _resolve_deployed_file_id(model_name): the exception class raised, or
\* "none" and the ObjectId returned
ResolveDeployedFileId(ms, n) ==
  LET docs == ByName(ms, n)
  IN  IF docs = <<>> THEN Resolved("ModelNotFoundError", None)
      ELSE IF \E i \in 1..Len(docs) : IsDeployed(docs[i])
           THEN Resolved("none", ObjectIdOf(FirstDeployed(docs).file_id))
           ELSE Resolved("ModelNotDeployedError", None)

\* --------------------------------------------------------- the orchestrator
\* request_dtype as the transport passes it: "None" means derive from model.
\* run and run_from_bytes take the tensor's dtype from the model's input[0]
\* alone: their bodies never read the dtype of the request.
RequestDtype(r) ==
  IF r.transport = "grpc"
  THEN IF PROTO_TO_NP(r.data_type) = DT_UNSPECIFIED_SENTINEL
       THEN "None" ELSE PROTO_TO_NP(r.data_type)
  ELSE r.data_type

\* run_from_bytes after the session is loaded: the exception class, or "none"
RunFromBytes(r, s, provided_name, nbytes, runOk) ==
  LET np_dtype == ONNX_TO_NP(s.type)
      decoded  == NumpyFromBytes(nbytes, r.dims, np_dtype)
  IN  IF np_dtype = "None" THEN "InvalidInputError"
      ELSE IF provided_name # "" /\ provided_name # s.name THEN "InvalidInputError"
      ELSE IF decoded # "none" THEN decoded
      ELSE IF s.shape # <<>> /\ ~ShapeCompatible(s.shape, r.dims) THEN "InvalidInputError"
      ELSE IF ~runOk THEN "RuntimeException"
      ELSE "none"

\* run after the session is loaded: the exception class, or "none"
Run(r, s, castOk, runOk) ==
  LET np_dtype == ONNX_TO_NP(s.type)
  IN  IF np_dtype = "None" THEN "InvalidInputError"
      ELSE IF ~castOk THEN "InvalidInputError"
      ELSE IF s.shape # <<>> /\ ~ShapeCompatible(s.shape, r.dims) THEN "InvalidInputError"
      ELSE IF ~runOk THEN "RuntimeException"
      ELSE "none"

\* session.run is the last step of both: it was reached iff the outcome is
\* its result or its failure
Executed(e) == e \in {"none", "RuntimeException"}

\* ------------------------------------------------------------ the transports
\* the except chain of infer
RestStatus(e) ==
  CASE e = "ModelNotFoundError" -> 404
    [] e = "ModelNotDeployedError" -> 400
    [] e = "InvalidInputError" -> 400
    [] OTHER -> 500

GrpcStatusMerged(e) ==
  CASE e \in {"ModelNotFoundError", "ModelNotDeployedError"} -> "NOT_FOUND"
    [] e = "InvalidInputError" -> "INVALID_ARGUMENT"
    [] OTHER -> "INTERNAL"

\* the except chain of Predict
GrpcStatus(e) ==
  CASE e = "ModelNotFoundError" -> "NOT_FOUND"
    [] e = "ModelNotDeployedError" -> "FAILED_PRECONDITION"
    [] e = "InvalidInputError" -> "INVALID_ARGUMENT"
    [] OTHER -> "INTERNAL"

\* the name the transport hands to the orchestrator
OrchName(r) == IF r.transport = "grpc" THEN Strip(r.model_name) ELSE r.model_name

\* the orchestrator raises e and the transport translates it
Raise(e) ==
  /\ raised' = e
  /\ ppc' = "done"
  /\ IF req.transport = "rest"
     THEN http' = RestStatus(e) /\ code' = ""
     ELSE code' = GrpcStatus(e) /\ http' = 0

\* the shapes np.asarray gives the nested lists the JSON clients send
JsonShapes == {<<0>>, <<2>>, <<1, 2>>}

\* POST /inference/infer/{model_name}
Infer(mn, shape, tag) ==
  /\ ppc \in {"idle", "done"}
  /\ req' = Request("rest", mn, shape, tag)
  /\ ppc' = "resolving"
  /\ file' = None /\ sig' = NoSig /\ raised' = "" /\ http' = 0 /\ code' = ""
  /\ ran' = FALSE
  /\ UNCHANGED models

PredictRejectsNoDtypeCheck(model_name, dims, dt) ==
  model_name = "" \/ dims = <<>>

\* the checks of Predict before it calls the orchestrator
PredictRejects(model_name, dims, dt) ==
  \/ model_name = ""
  \/ dims = <<>>
  \/ PROTO_TO_NP(dt) = DT_UNSUPPORTED_SENTINEL

\* the Predict RPC up to its first await
Predict(mn, dims, dt) ==
  /\ ppc \in {"idle", "done"}
  /\ req' = Request("grpc", mn, dims, dt)
  /\ file' = None /\ sig' = NoSig /\ raised' = "" /\ http' = 0
  /\ ran' = FALSE
  /\ IF PredictRejects(Strip(mn), dims, dt)
     THEN ppc' = "done" /\ code' = "INVALID_ARGUMENT"
     ELSE ppc' = "resolving" /\ code' = ""
  /\ UNCHANGED models

\* the metadata lookup completes: the store failed, or the resolver decides
Resolve(storeOk) ==
  /\ ppc = "resolving"
  /\ LET r == ResolveDeployedFileId(models, OrchName(req))
     IN  IF ~storeOk THEN Raise("PyMongoError") /\ UNCHANGED file
         ELSE IF r.err # "none" THEN Raise(r.err) /\ UNCHANGED file
         ELSE /\ file' = r.id
              /\ ppc' = "loading"
              /\ UNCHANGED <<raised, http, code>>
  /\ UNCHANGED <<models, req, sig, ran>>

\* _load_session: get_session returns a session, or raises RuntimeError when
\* the blob read or the session construction failed
LoadSession(outcome, s) ==
  /\ ppc = "loading"
  /\ IF outcome = "loaded"
     THEN sig' = s /\ ppc' = "validating" /\ UNCHANGED <<raised, http, code>>
     ELSE Raise("RuntimeError") /\ UNCHANGED sig
  /\ UNCHANGED <<models, req, file, ran>>

\* run on the loaded session, and the reply of infer: results is a list of
\* lists, so an output whose tolist() is not a list fails the response model
OrchRun(castOk, runOk, listOk) ==
  /\ ppc = "validating"
  /\ req.transport = "rest"
  /\ LET e == Run(req, sig, castOk, runOk)
     IN  /\ ran' = Executed(e)
         /\ IF e # "none" THEN Raise(e)
            ELSE /\ raised' = "none"
                 /\ ppc' = "done"
                 /\ http' = (IF listOk THEN 200 ELSE 500)
                 /\ code' = ""
  /\ UNCHANGED <<models, req, file, sig>>

\* run_from_bytes on the loaded session, and the reply of Predict: an output
\* dtype outside NP_TO_PROTO is INTERNAL
OrchRunFromBytes(provided_name, nbytes, runOk, outOk) ==
  /\ ppc = "validating"
  /\ req.transport = "grpc"
  /\ LET e == RunFromBytes(req, sig, provided_name, nbytes, runOk)
     IN  /\ ran' = Executed(e)
         /\ IF e # "none" THEN Raise(e)
            ELSE /\ raised' = "none"
                 /\ ppc' = "done"
                 /\ code' = (IF outOk THEN "OK" ELSE "INTERNAL")
                 /\ http' = 0
  /\ UNCHANGED <<models, req, file, sig>>

PredictIdle ==
  /\ req = NoRequest
  /\ ppc = "idle"
  /\ file = None
  /\ sig = NoSig
  /\ raised = ""
  /\ http = 0
  /\ code = ""
  /\ ran = FALSE

PredictInit == models \in Collections /\ PredictIdle

\* ======================================================================
\* The tensor codec: Predict's encoding of output[0] and _numpy_from_bytes

MaxContent == 9    \* tensor_content lengths a client sends: 0..MaxContent

Dtypes == {"float32", "float64", "int32", "int64", "bool"}

\* an ndarray: elements in row-major order.  A numeric element is the signed
\* integer its bits spell, so that the bytes decide equality; a bool is 0 or 1
Array(d, o, sh, es) == [dtype |-> d, order |-> o, shape |-> sh, elems |-> es]

NoArray == Array("", "", <<>>, <<>>)

ByteOrders == {"<", ">"}

ElemValues(d) ==
  IF d = "bool" THEN {0, 1}
  ELSE IF d \in {"float32", "float64"} THEN {0, 258}
  ELSE {0, 258, -1}

\* shapes of the arrays a session returns; () is a 0-d array of one element
OutputShapes == {<<>>, <<0>>, <<1>>, <<2>>, <<1, 2>>, <<2, 1>>}

Arrays ==
  {Array(d, o, sh, es) :
     d \in Dtypes, o \in ByteOrders, sh \in OutputShapes,
     es \in UNION {[1..n -> UNION {ElemValues(t) : t \in Dtypes}] : n \in 0..2}}

WellFormed(a) ==
  /\ Len(a.elems) = Prod(a.shape)
  /\ \A i \in 1..Len(a.elems) : a.elems[i] \in ElemValues(a.dtype)

\* the s bytes of v, least significant first (two's complement)
RECURSIVE LittleEndian(_, _)
LittleEndian(v, s) ==
  IF s = 0 THEN <<>> ELSE <<v % 256>> \o LittleEndian(v \div 256, s - 1)

RECURSIVE Reverse(_)
Reverse(q) == IF q = <<>> THEN <<>> ELSE Reverse(Tail(q)) \o <<Head(q)>>

\* the bytes of one element in memory, in byte order o
ElemBytes(v, d, o) ==
  IF d = "bool" THEN <<v>>
  ELSE IF o = "<" THEN LittleEndian(v, ElemSize(d))
  ELSE Reverse(LittleEndian(v, ElemSize(d)))

RECURSIVE Flatten(_)
Flatten(qs) == IF qs = <<>> THEN <<>> ELSE Head(qs) \o Flatten(Tail(qs))

\* arr.tobytes(order="C")
MemoryBytes(a) ==
  Flatten([i \in 1..Len(a.elems) |-> ElemBytes(a.elems[i], a.dtype, a.order)])

\* astype(dtype.newbyteorder("<")): same values, little-endian memory
AsLittleEndian(a) == [a EXCEPT !.order = "<"]

\* tensor_content of the reply: little-endian unless bool, C-contiguous
ToBytes(a) ==
  IF a.dtype # "bool" THEN MemoryBytes(AsLittleEndian(a)) ELSE MemoryBytes(a)

\* the signed integer that little-endian bytes spell
RECURSIVE FromLittleEndian(_)
FromLittleEndian(bs) ==
  IF Len(bs) = 1 THEN (IF Head(bs) >= 128 THEN Head(bs) - 256 ELSE Head(bs))
  ELSE Head(bs) + 256 * FromLittleEndian(Tail(bs))

\* one element of np.frombuffer: uint8 widened to bool, or little-endian dtype
ElemFromBytes(bs, d) ==
  IF d = "bool" THEN (IF Head(bs) # 0 THEN 1 ELSE 0) ELSE FromLittleEndian(bs)

\* (mutant) the reshape of line 90 is forgotten: the array stays flat
FromBufferFlat(buf, dims, d) ==
  LET s == ElemSize(d)
  IN  Array(d, "<", <<Len(buf) \div s>>,
            [i \in 1..(Len(buf) \div s) |->
               ElemFromBytes(SubSeq(buf, (i - 1) * s + 1, i * s), d)])

\* np.frombuffer(buf, dtype).reshape(dims), when the sizes agree
FromBuffer(buf, dims, d) ==
  LET s == ElemSize(d)
  IN  Array(d, "<", dims,
            [i \in 1..(Len(buf) \div s) |->
               ElemFromBytes(SubSeq(buf, (i - 1) * s + 1, i * s), d)])

\* dims a client sends
ClientDims == {<<>>, <<0>>, <<2>>, <<1, 2>>, <<-1>>, <<-1, -2>>, <<0, -1>>}

ClientBytes == {0, 255}

\* output[0] is encoded into a ResponseTensor
EncodeOutput(a) ==
  /\ cpc \in {"idle", "decoded"}
  /\ WellFormed(a)
  /\ carr' = a
  /\ cbuf' = ToBytes(a)
  /\ cdims' = a.shape
  /\ ctag' = a.dtype
  /\ cout' = NoArray
  /\ cerr' = ""
  /\ cpc' = "encoded"

\* a client sends dims, n bytes of content and the model fixes the dtype
Receive(dims, d, n, b) ==
  /\ cpc \in {"idle", "decoded"}
  /\ carr' = NoArray
  /\ cbuf' = [i \in 1..n |-> b]
  /\ cdims' = dims
  /\ ctag' = d
  /\ cout' = NoArray
  /\ cerr' = ""
  /\ cpc' = "received"

\* _numpy_from_bytes(buf, dims, dtype)
Decode ==
  /\ cpc \in {"encoded", "received"}
  /\ cerr' = NumpyFromBytes(Len(cbuf), cdims, ctag)
  /\ cout' = IF cerr' = "none" THEN FromBuffer(cbuf, cdims, ctag) ELSE NoArray
  /\ cpc' = "decoded"
  /\ UNCHANGED <<carr, cbuf, cdims, ctag>>

CodecIdle ==
  /\ carr = NoArray
  /\ cbuf = <<>>
  /\ cdims = <<>>
  /\ ctag = ""
  /\ cout = NoArray
  /\ cerr = ""
  /\ cpc = "idle"

\* ======================================================================
\* The lifecycle of the gRPC server: serve, readiness_monitor, the signals
\*
\* serve runs on the event loop with the two background tasks; the handlers
\* that loop.add_signal_handler installs run between the steps of the
\* coroutines.  Each action is the code between two awaits.

MaxSignals == 2    \* termination signals delivered to the process

MaxPings == 2      \* iterations of the readiness monitor

FullyQualifiedService == "InferenceService"

HealthNames == {"", FullyQualifiedService}

\* health_servicer.set(name, status) for both names, with no await between
SetHealthFirstOnly(h, st) == [h EXCEPT ![""] = st]

SetHealth(h, st) == [n \in HealthNames |-> st]

\* READINESS_INTERVAL and GRPC_GRACE_SECONDS parse as numbers, or do not
Environments == [interval_ok : BOOLEAN, grace_ok : BOOLEAN]

\* serve up to `await server.start()`: both names NOT_SERVING, the readiness
\* task created, the signal handlers installed
ServeInit ==
  /\ env \in Environments
  /\ spc = "starting"
  /\ health = [n \in HealthNames |-> "NOT_SERVING"]
  /\ shutting_down = FALSE
  /\ shutdown_event = FALSE
  /\ mon = "created"
  /\ dbg = "none"
  /\ client = "open"
  /\ steps = <<>>
  /\ exitcode = -1
  /\ forced = FALSE
  /\ sraised = FALSE
  /\ signals = 0
  /\ pings = 0
  /\ lastPing = "none"

\* the lifecycle when the process is not being modelled
ServeAtRest == ServeInit /\ env = [interval_ok |-> TRUE, grace_ok |-> TRUE]

Alive == spc # "exited"

\* _hard_exit(1)
HardExit ==
  /\ spc' = "exited"
  /\ exitcode' = 1
  /\ forced' = TRUE

BeginShutdownIgnoreSecond ==
  /\ shutting_down' = TRUE
  /\ shutdown_event' = TRUE
  /\ UNCHANGED <<spc, exitcode, forced>>

\* _begin_shutdown(sig)
BeginShutdown ==
  IF ~shutting_down
  THEN /\ shutting_down' = TRUE
       /\ shutdown_event' = TRUE
       /\ UNCHANGED <<spc, exitcode, forced>>
  ELSE /\ HardExit
       /\ UNCHANGED <<shutting_down, shutdown_event>>

\* SIGINT or SIGTERM is delivered while the process runs
Signal ==
  /\ Alive
  /\ signals < MaxSignals
  /\ signals' = signals + 1
  /\ BeginShutdown
  /\ UNCHANGED <<env, health, mon, dbg, client, steps, sraised, pings, lastPing>>

\* server.start() returns; the debug task is created
ServerStarted ==
  /\ spc = "starting"
  /\ spc' = "waiting"
  /\ dbg' = "running"
  /\ UNCHANGED <<env, health, shutting_down, shutdown_event, mon, client, steps,
                 exitcode, forced, sraised, signals, pings, lastPing>>

\* the readiness task runs for the first time: it reads READINESS_INTERVAL
\* and starts the first ping, or dies of ValueError
MonitorStart ==
  /\ Alive
  /\ mon = "created"
  /\ mon' = IF env.interval_ok THEN "pinging" ELSE "failed"
  /\ UNCHANGED <<env, spc, health, shutting_down, shutdown_event, dbg, client,
                 steps, exitcode, forced, sraised, signals, pings, lastPing>>

PingDoneFirstOnly(ok) ==
  /\ Alive
  /\ mon = "pinging"
  /\ pings < MaxPings
  /\ pings' = pings + 1
  /\ lastPing' = IF ok THEN "ok" ELSE "failed"
  /\ health' = SetHealthFirstOnly(health, IF ok THEN "SERVING" ELSE "NOT_SERVING")
  /\ mon' = "sleeping"
  /\ UNCHANGED <<env, spc, shutting_down, shutdown_event, dbg, client, steps,
                 exitcode, forced, sraised, signals>>

\* the ping returns or raises; the iteration sets both names and sleeps
PingDone(ok) ==
  /\ Alive
  /\ mon = "pinging"
  /\ pings < MaxPings
  /\ pings' = pings + 1
  /\ lastPing' = IF ok THEN "ok" ELSE "failed"
  /\ health' = SetHealth(health, IF ok THEN "SERVING" ELSE "NOT_SERVING")
  /\ mon' = "sleeping"
  /\ UNCHANGED <<env, spc, shutting_down, shutdown_event, dbg, client, steps,
                 exitcode, forced, sraised, signals>>

\* asyncio.sleep(interval) is over; the next ping starts
SleepDone ==
  /\ Alive
  /\ mon = "sleeping"
  /\ mon' = "pinging"
  /\ UNCHANGED <<env, spc, health, shutting_down, shutdown_event, dbg, client,
                 steps, exitcode, forced, sraised, signals, pings, lastPing>>

\* _debug_log_deployed_names ends by itself
DebugDone ==
  /\ Alive
  /\ dbg = "running"
  /\ dbg' = "done"
  /\ UNCHANGED <<env, spc, health, shutting_down, shutdown_event, mon, client,
                 steps, exitcode, forced, sraised, signals, pings, lastPing>>

\* shutdown_event.wait() returns: set both names NOT_SERVING, cancel the
\* debug task and await it.  Awaiting a task that is already over does not
\* suspend: serve then goes on to cancel the readiness task and awaits that.
ShutdownBegins ==
  /\ spc = "waiting"
  /\ shutdown_event
  /\ health' = SetHealth(health, "NOT_SERVING")
  /\ IF dbg = "running"
     THEN /\ steps' = steps \o <<"health", "cancel">>
          /\ dbg' = "cancelling"
          /\ spc' = "await_debug"
          /\ UNCHANGED mon
     ELSE /\ steps' = steps \o <<"health", "cancel", "cancel">>
          /\ mon' = IF mon = "failed" THEN "failed" ELSE "cancelling"
          /\ spc' = "await_readiness"
          /\ UNCHANGED dbg
  /\ UNCHANGED <<env, shutting_down, shutdown_event, client, exitcode,
                 forced, sraised, signals, pings, lastPing>>

\* `await task` returns for the debug task; cancel the readiness task and
\* await it.  A cancelled task runs no more of its code.
DebugAwaited ==
  /\ spc = "await_debug"
  /\ dbg' = IF dbg = "cancelling" THEN "cancelled" ELSE dbg
  /\ steps' = steps \o <<"cancel">>
  /\ mon' = IF mon = "failed" THEN "failed" ELSE "cancelling"
  /\ spc' = "await_readiness"
  /\ UNCHANGED <<env, health, shutting_down, shutdown_event, client, exitcode,
                 forced, sraised, signals, pings, lastPing>>

PropagateWithoutFinally ==
  /\ spc' = "returned"
  /\ exitcode' = 1
  /\ sraised' = TRUE
  /\ UNCHANGED <<client, steps>>

\* an exception leaves the try block: the finally clause closes the client
\* and serve raises
Propagate ==
  /\ client' = "closed"
  /\ steps' = steps \o <<"close">>
  /\ spc' = "returned"
  /\ exitcode' = 1
  /\ sraised' = TRUE

\* `await task` returns for the readiness task, or raises what the task died
\* of; then GRPC_GRACE_SECONDS is read and server.stop(grace) is called
ReadinessAwaited ==
  /\ spc = "await_readiness"
  /\ IF mon = "failed" \/ ~env.grace_ok
     THEN /\ Propagate
          /\ mon' = IF mon = "failed" THEN "failed" ELSE "cancelled"
     ELSE /\ mon' = "cancelled"
          /\ steps' = steps \o <<"stop">>
          /\ spc' = "stopping"
          /\ UNCHANGED <<client, exitcode, sraised>>
  /\ UNCHANGED <<env, health, shutting_down, shutdown_event, dbg, forced,
                 signals, pings, lastPing>>

\* server.stop(grace) and wait_for_termination() return, or one raises; the
\* finally clause closes the client and serve returns
ServerStopped(ok) ==
  /\ spc = "stopping"
  /\ IF ok
     THEN /\ client' = "closed"
          /\ steps' = steps \o <<"close">>
          /\ spc' = "returned"
          /\ exitcode' = 0
          /\ UNCHANGED sraised
     ELSE Propagate
  /\ UNCHANGED <<env, health, shutting_down, shutdown_event, mon, dbg, forced,
                 signals, pings, lastPing>>

\* asyncio.run winds the loop down and the interpreter exits: 0, or 1 when
\* serve raised
ProcessExit ==
  /\ spc = "returned"
  /\ spc' = "exited"
  /\ UNCHANGED <<env, health, shutting_down, shutdown_event, mon, dbg, client,
                 steps, exitcode, forced, sraised, signals, pings, lastPing>>

\* ======================================================================
\* The inventory endpoints: upload, deploy-file, deploy-model, undeploy and
\* delete, each a coroutine that may be suspended at every call to the store
\* while other requests run.

NumClients == 2    \* requests in flight at once

MaxOps == 3        \* inventory requests in one behaviour

Clients == 1..NumClients

DocIds == 1..MaxOps

Versions == 1..MaxOps

\* the locals of a handler between its awaits
Op(kind, n, v, id, f) == [kind |-> kind, name |-> n, version |-> v, id |-> id, file |-> f]

NoOp == Op("none", "", 0, 0, 0)

\* find({"name": n})
DocsNamed(ms, n) == SelectSeq(ms, LAMBDA d : d.name = n)

AnyDeployed(docs) == \E i \in 1..Len(docs) : docs[i].status = "Deployed"

\* find_one({"name": n}, sort=[("version", -1)]), then new_version
NewVersion(ms, n) ==
  LET docs == DocsNamed(ms, n)
      top  == CHOOSE i \in 1..Len(docs) : \A j \in 1..Len(docs) : docs[j].version <= docs[i].version
  IN  IF docs = <<>> THEN 1 ELSE docs[top].version + 1

\* find_one({"name": n, "version": v}): the first match in storage order
FindVersion(ms, n, v) == SelectSeq(ms, LAMBDA d : d.name = n /\ d.version = v)

HasId(ms, id) == \E i \in 1..Len(ms) : ms[i].id = id

\* update_one({"_id": id}, {"$set": {"status": st}})
SetStatus(ms, id, st) ==
  [i \in 1..Len(ms) |-> IF ms[i].id = id THEN [ms[i] EXCEPT !.status = st] ELSE ms[i]]

\* delete_one({"_id": id})
DeleteId(ms, id) == SelectSeq(ms, LAMBDA d : d.id # id)

\* a request ends with an HTTP status
Reply(c, st) ==
  /\ dpc' = [dpc EXCEPT ![c] = "idle"]
  /\ dop' = [dop EXCEPT ![c] = NoOp]
  /\ dres' = [dres EXCEPT ![c] = st]

\* a handler goes on to its next await
Goto(c, label, op) ==
  /\ dpc' = [dpc EXCEPT ![c] = label]
  /\ dop' = [dop EXCEPT ![c] = op]
  /\ UNCHANGED dres

\* a new request is taken by the lowest free slot
Accept(c) ==
  /\ dpc[c] = "idle"
  /\ \A c2 \in Clients : c2 < c => dpc[c2] # "idle"
  /\ ops < MaxOps
  /\ ops' = ops + 1

\* upload_file up to the insert: the latest version is read
UploadLatest(c, n) ==
  /\ Accept(c)
  /\ Goto(c, "store", Op("upload", n, NewVersion(models, n), 0, 0))
  /\ UNCHANGED <<models, blobs, nextId, nextFile, created>>

\* deploy_file: refuse when a version of the name is deployed
DeployFileCheck(c, n) ==
  /\ Accept(c)
  /\ IF AnyDeployed(DocsNamed(models, n))
     THEN Reply(c, 400)
     ELSE Goto(c, "latest", Op("deploy_file", n, 0, 0, 0))
  /\ UNCHANGED <<models, blobs, nextId, nextFile, created>>

\* deploy_file: the latest version is read
DeployFileLatest(c) ==
  /\ dpc[c] = "latest"
  /\ Goto(c, "store", [dop[c] EXCEPT !.version = NewVersion(models, dop[c].name)])
  /\ UNCHANGED <<models, blobs, nextId, nextFile, created, ops>>

\* fs.upload_from_stream: a new blob
StoreBlob(c) ==
  /\ dpc[c] = "store"
  /\ blobs' = blobs \cup {nextFile}
  /\ nextFile' = nextFile + 1
  /\ Goto(c, "insert", [dop[c] EXCEPT !.file = nextFile])
  /\ UNCHANGED <<models, nextId, created, ops>>

\* insert_one(meta): Uploaded for upload_file, Deployed for deploy_file
InsertDoc(c) ==
  /\ dpc[c] = "insert"
  /\ LET st == IF dop[c].kind = "upload" THEN "Uploaded" ELSE "Deployed"
         d  == Doc(nextId, dop[c].name, dop[c].version, StrOfObjectId(dop[c].file), st)
     IN  /\ models' = Append(models, d)
         /\ created' = Append(created, [name |-> d.name, version |-> d.version])
  /\ nextId' = nextId + 1
  /\ Reply(c, 200)
  /\ UNCHANGED <<blobs, nextFile, ops>>

\* deploy_model: refuse when a version of model_name is deployed
DeployModelCheck(c, n, id) ==
  /\ Accept(c)
  /\ IF AnyDeployed(DocsNamed(models, n))
     THEN Reply(c, 400)
     ELSE Goto(c, "deploy", Op("deploy_model", n, 0, id, 0))
  /\ UNCHANGED <<models, blobs, nextId, nextFile, created>>

\* deploy_model: the document with model_id is set Deployed
DeployModelUpdate(c) ==
  /\ dpc[c] = "deploy"
  /\ models' = SetStatus(models, dop[c].id, "Deployed")
  /\ \E changed \in BOOLEAN :
       \* modified_count: an absent document is never modified, one that was
       \* not Deployed always is, a Deployed one when its date or endpoint changes
       /\ HasId(models, dop[c].id) \/ ~changed
       /\ (\E i \in 1..Len(models) :
              models[i].id = dop[c].id /\ models[i].status # "Deployed") => changed
       /\ Reply(c, IF changed THEN 200 ELSE 400)
  /\ UNCHANGED <<blobs, nextId, nextFile, created, ops>>

\* undeploy_model: the version is looked up
UndeployFind(c, n, v) ==
  /\ Accept(c)
  /\ LET found == FindVersion(models, n, v)
     IN  IF found = <<>> THEN Reply(c, 404)
         ELSE IF found[1].status # "Deployed" THEN Reply(c, 400)
         ELSE Goto(c, "undeploy", Op("undeploy", n, v, found[1].id, 0))
  /\ UNCHANGED <<models, blobs, nextId, nextFile, created>>

\* undeploy_model: the document is set Uploaded
UndeployUpdate(c) ==
  /\ dpc[c] = "undeploy"
  /\ models' = SetStatus(models, dop[c].id, "Uploaded")
  /\ Reply(c, IF \E i \in 1..Len(models) :
                    models[i].id = dop[c].id /\ models[i].status # "Uploaded"
              THEN 200 ELSE 500)
  /\ UNCHANGED <<blobs, nextId, nextFile, created, ops>>

\* delete_model: the version is looked up
DeleteFind(c, n, v) ==
  /\ Accept(c)
  /\ LET found == FindVersion(models, n, v)
     IN  IF found = <<>> THEN Reply(c, 404)
         ELSE Goto(c, "delete_blob",
                   Op("delete", n, v, found[1].id, ObjectIdOf(found[1].file_id)))
  /\ UNCHANGED <<models, blobs, nextId, nextFile, created>>

\* delete_model: fs.delete(oid), which raises when the blob is gone
DeleteBlob(c) ==
  /\ dpc[c] = "delete_blob"
  /\ IF dop[c].file \in blobs
     THEN blobs' = blobs \ {dop[c].file} /\ Goto(c, "delete_doc", dop[c])
     ELSE UNCHANGED blobs /\ Reply(c, 500)
  /\ UNCHANGED <<models, nextId, nextFile, created, ops>>

\* delete_model: delete_one by _id
DeleteDoc(c) ==
  /\ dpc[c] = "delete_doc"
  /\ models' = DeleteId(models, dop[c].id)
  /\ Reply(c, IF HasId(models, dop[c].id) THEN 200 ELSE 500)
  /\ UNCHANGED <<blobs, nextId, nextFile, created, ops>>

CatalogIdle ==
  /\ dpc = [c \in Clients |-> "idle"]
  /\ dop = [c \in Clients |-> NoOp]
  /\ dres = [c \in Clients |-> 0]
  /\ blobs = {}
  /\ nextId = 1
  /\ nextFile = 1
  /\ created = <<>>
  /\ ops = 0

\* ------------------------------------------------------- the specifications
\* the cache, exercised directly by concurrent callers
\* the components a specification does not exercise stay as constructed
CacheAtRest ==
  /\ max_ = CtorMax(NoArg, DefaultCacheMax)
  /\ ttl_ = CtorTtl(NoArg, DefaultCacheTtl)
  /\ CacheEmpty

PredictAtRest == models = <<>> /\ PredictIdle

Init == CacheInit /\ PredictAtRest /\ CodecIdle /\ ServeAtRest /\ CatalogIdle

Next ==
  \/ \E t \in Tasks, k \in Keys, tnow \in 0..MaxTime :
       tnow >= clock /\ Call(t, k, tnow) /\ UNCHANGED exceptCache
  \/ \E t \in Tasks : Wake(t) /\ UNCHANGED exceptCache
  \/ \E t \in Tasks : OpenOk(t) /\ UNCHANGED exceptCache
  \/ \E t \in Tasks : OpenFail(t) /\ UNCHANGED exceptCache
  \/ \E t \in Tasks, ok \in BOOLEAN : ReadDone(t, ok) /\ UNCHANGED exceptCache
  \/ \E t \in Tasks : CloseAfterFailedRead(t) /\ UNCHANGED exceptCache
  \/ \E t \in Tasks : ConstructFail(t) /\ UNCHANGED exceptCache
  \/ \E t \in Tasks : LoadComplete(t) /\ UNCHANGED exceptCache
  \/ \E k \in Keys : Invalidate(k) /\ UNCHANGED exceptCache
  \/ Clear /\ UNCHANGED exceptCache

Spec == Init /\ [][Next]_vars

\* get_session as above, with calls that are cancelled at a suspension point
\* and with a store whose close() is synchronous
NextSessions ==
  \/ \E t \in Tasks, k \in Keys, tnow \in 0..MaxTime :
       tnow >= clock /\ Call(t, k, tnow) /\ UNCHANGED exceptCache
  \/ \E t \in Tasks : Wake(t) /\ UNCHANGED exceptCache
  \/ \E t \in Tasks : OpenOk(t) /\ UNCHANGED exceptCache
  \/ \E t \in Tasks : OpenFail(t) /\ UNCHANGED exceptCache
  \/ \E t \in Tasks, ok \in BOOLEAN : ReadDone(t, ok) /\ UNCHANGED exceptCache
  \/ \E t \in Tasks : CloseAfterFailedRead(t) /\ UNCHANGED exceptCache
  \/ \E t \in Tasks : ConstructFail(t) /\ UNCHANGED exceptCache
  \/ \E t \in Tasks : LoadComplete(t) /\ UNCHANGED exceptCache
  \/ \E k \in Keys : Invalidate(k) /\ UNCHANGED exceptCache
  \/ Clear /\ UNCHANGED exceptCache
  \/ \E t \in Tasks : CancelWaiting(t) /\ UNCHANGED exceptCache
  \/ \E t \in Tasks : CancelOpening(t) /\ UNCHANGED exceptCache
  \/ \E t \in Tasks : CancelReading(t) /\ UNCHANGED exceptCache
  \/ \E t \in Tasks : CloseAfterCancelledRead(t) /\ UNCHANGED exceptCache
  \/ \E t \in Tasks : CancelClosing(t) /\ UNCHANGED exceptCache
  \/ \E t \in Tasks : ReadFailSyncClose(t) /\ UNCHANGED exceptCache
  \/ \E t \in Tasks : ReadOkSyncCloseConstructFail(t) /\ UNCHANGED exceptCache
  \/ \E t \in Tasks : ReadOkSyncCloseLoad(t) /\ UNCHANGED exceptCache

SpecSessions == Init /\ [][NextSessions]_vars

\* the cache constructed with eviction and expiry switched off by argument
InitDisabled == DisabledInit /\ PredictAtRest /\ CodecIdle /\ ServeAtRest /\ CatalogIdle

SpecDisabled == InitDisabled /\ [][Next]_vars

\* get_session called with file ids in every representation, on the cache
\* the orchestrator builds
NextNormalize ==
  \/ \E t \in Tasks, f \in FileIds, tnow \in 0..MaxTime :
       tnow >= clock /\ GetSession(t, f, tnow) /\ UNCHANGED exceptSessions
  \/ \E t \in Tasks : Wake(t) /\ UNCHANGED exceptCache
  \/ \E t \in Tasks : OpenOk(t) /\ UNCHANGED exceptCache
  \/ \E t \in Tasks : ReadDone(t, TRUE) /\ UNCHANGED exceptCache
  \/ \E t \in Tasks : LoadComplete(t) /\ UNCHANGED exceptCache

InitNormalize == CacheAtRest /\ PredictAtRest /\ CodecIdle /\ ServeAtRest /\ CatalogIdle

SpecNormalize == InitNormalize /\ [][NextNormalize]_vars

\* get_session of the older ModelCache in app/services/shared
NextLegacy ==
  \/ \E t \in Tasks, k \in Keys, tnow \in 0..MaxTime :
       tnow >= clock /\ Call(t, k, tnow) /\ UNCHANGED exceptCache
  \/ \E t \in Tasks : Wake(t) /\ UNCHANGED exceptCache
  \/ \E t \in Tasks : OpenOk(t) /\ UNCHANGED exceptCache
  \/ \E t \in Tasks : OpenFail(t) /\ UNCHANGED exceptCache
  \/ \E t \in Tasks : LegacyReadFail(t) /\ UNCHANGED exceptCache
  \/ \E t \in Tasks : LegacyConstructFail(t) /\ UNCHANGED exceptCache
  \/ \E t \in Tasks : LegacyLoadComplete(t) /\ UNCHANGED exceptCache
  \/ \E k \in Keys : Invalidate(k) /\ UNCHANGED exceptCache
  \/ Clear /\ UNCHANGED exceptCache

SpecLegacy == Init /\ [][NextLegacy]_vars

\* the cache configured with capacity zero and TTL 0
InitZeroCapacity ==
  ZeroCapacityInit /\ PredictAtRest /\ CodecIdle /\ ServeAtRest /\ CatalogIdle

SpecZeroCapacity == InitZeroCapacity /\ [][Next]_vars

\* one request at a time through a transport, over every collection; the
\* orchestrator builds its cache with no arguments
InitP == CacheAtRest /\ PredictInit /\ CodecIdle /\ ServeAtRest /\ CatalogIdle

NextP ==
  \/ \E mn \in RequestNames \ {""}, sh \in JsonShapes, tag \in DtypeTags :
       Infer(mn, sh, tag) /\ UNCHANGED exceptPredict
  \/ \E mn \in RequestNames, ds \in RequestDims, dt \in DataTypes :
       Predict(mn, ds, dt) /\ UNCHANGED exceptPredict
  \/ \E ok \in BOOLEAN : Resolve(ok) /\ UNCHANGED exceptPredict
  \/ \E o \in {"loaded", "read_failed", "construct_failed"}, s \in Sigs :
       LoadSession(o, s) /\ UNCHANGED exceptPredict
  \/ \E castOk \in BOOLEAN, runOk \in BOOLEAN, listOk \in BOOLEAN :
       OrchRun(castOk, runOk, listOk) /\ UNCHANGED exceptPredict
  \/ \E pn \in InputNames, nb \in ContentSizes, runOk \in BOOLEAN, outOk \in BOOLEAN :
       OrchRunFromBytes(pn, nb, runOk, outOk) /\ UNCHANGED exceptPredict

SpecPredict == InitP /\ [][NextP]_vars

\* the codec on its own: arrays to encode and contents to decode
InitCodec == CacheAtRest /\ PredictAtRest /\ CodecIdle /\ ServeAtRest /\ CatalogIdle

NextCodec ==
  \/ \E a \in Arrays : EncodeOutput(a) /\ UNCHANGED exceptCodec
  \/ \E dims \in ClientDims, d \in Dtypes, n \in 0..MaxContent, b \in ClientBytes :
       Receive(dims, d, n, b) /\ UNCHANGED exceptCodec
  \/ Decode /\ UNCHANGED exceptCodec

SpecCodec == InitCodec /\ [][NextCodec]_vars

\* the server process from startup to exit.  The event loop runs every
\* coroutine that is ready, so each step of serve and of the exit is taken
\* once it can be; signals and ping results come when they come.
InitServe == CacheAtRest /\ PredictAtRest /\ CodecIdle /\ ServeInit /\ CatalogIdle

ServeProgress ==
  \/ ServerStarted
  \/ ShutdownBegins
  \/ DebugAwaited
  \/ ReadinessAwaited
  \/ \E ok \in BOOLEAN : ServerStopped(ok)
  \/ ProcessExit

NextServe ==
  \/ Signal /\ UNCHANGED exceptServe
  \/ ServerStarted /\ UNCHANGED exceptServe
  \/ MonitorStart /\ UNCHANGED exceptServe
  \/ \E ok \in BOOLEAN : PingDone(ok) /\ UNCHANGED exceptServe
  \/ SleepDone /\ UNCHANGED exceptServe
  \/ DebugDone /\ UNCHANGED exceptServe
  \/ ShutdownBegins /\ UNCHANGED exceptServe
  \/ DebugAwaited /\ UNCHANGED exceptServe
  \/ ReadinessAwaited /\ UNCHANGED exceptServe
  \/ \E ok \in BOOLEAN : ServerStopped(ok) /\ UNCHANGED exceptServe
  \/ ProcessExit /\ UNCHANGED exceptServe

SpecServe ==
  InitServe /\ [][NextServe]_vars /\ WF_vars(ServeProgress /\ UNCHANGED exceptServe)

\* the inventory endpoints under concurrent requests, from an empty collection
InitCatalog == CacheAtRest /\ PredictAtRest /\ CodecIdle /\ ServeAtRest /\ CatalogIdle

NextCatalog ==
  \/ \E c \in Clients, n \in ModelNames : UploadLatest(c, n) /\ UNCHANGED exceptCatalog
  \/ \E c \in Clients, n \in ModelNames : DeployFileCheck(c, n) /\ UNCHANGED exceptCatalog
  \/ \E c \in Clients : DeployFileLatest(c) /\ UNCHANGED exceptCatalog
  \/ \E c \in Clients : StoreBlob(c) /\ UNCHANGED exceptCatalog
  \/ \E c \in Clients : InsertDoc(c) /\ UNCHANGED exceptCatalog
  \/ \E c \in Clients, n \in ModelNames, id \in DocIds :
       DeployModelCheck(c, n, id) /\ UNCHANGED exceptCatalog
  \/ \E c \in Clients : DeployModelUpdate(c) /\ UNCHANGED exceptCatalog
  \/ \E c \in Clients, n \in ModelNames, v \in Versions :
       UndeployFind(c, n, v) /\ UNCHANGED exceptCatalog
  \/ \E c \in Clients : UndeployUpdate(c) /\ UNCHANGED exceptCatalog
  \/ \E c \in Clients, n \in ModelNames, v \in Versions :
       DeleteFind(c, n, v) /\ UNCHANGED exceptCatalog
  \/ \E c \in Clients : DeleteBlob(c) /\ UNCHANGED exceptCatalog
  \/ \E c \in Clients : DeleteDoc(c) /\ UNCHANGED exceptCatalog

SpecCatalog == InitCatalog /\ [][NextCatalog]_vars

\* ======================================================================
\* Claims about the session cache
\* ======================================================================
Returned(t, k) == pc[t] = "done" /\ oid[t] = k /\ how[t] \in {"hit", "hit_postlock", "load"}

\* a step that is a get_session call by t for k, at any time
IsCall(t, k) == \E tnow \in 0..MaxTime : tnow >= clock /\ Call(t, k, tnow)

C2_HitWhilePresent ==
  [][ /\ \A t \in Tasks, k \in Keys :
           (IsCall(t, k) /\ k \in CacheKeys(cache)
              /\ ~(ttl_ > 0 /\ clock' - CacheGet(cache, k).loaded_at > ttl_))
           => /\ pc'[t] = "done" /\ how'[t] = "hit"
              /\ ret'[t] = CacheGet(cache, k).session
              /\ nextSess' = nextSess
              /\ \A u \in Tasks : pc'[u] = "opening" => pc[u] = "opening"
      /\ \A t \in Tasks :
           (LoadComplete(t) /\ oid[t] \in CacheKeys(cache'))
           => CacheGet(cache', oid[t]).session = ret'[t]
      /\ \A k \in Keys :
           (k \in CacheKeys(cache) /\ k \in CacheKeys(cache'))
           => CacheGet(cache', k).session = CacheGet(cache, k).session
    ]_vars

\* C2 witness: one call loaded k, a later call for k was a hit on that session
C2_Witness ==
  \E t, u \in Tasks :
    /\ t # u /\ oid[t] = oid[u] /\ pc[t] = "done" /\ pc[u] = "done"
    /\ how[t] = "load" /\ how[u] = "hit" /\ ret[u] = ret[t]
    /\ oid[t] \in CacheKeys(cache) /\ CacheGet(cache, oid[t]).session = ret[t]

Distinct(q) == \A i, j \in 1..Len(q) : i # j => q[i] # q[j]

C4_CapacityBound == max_ > 0 => Len(cache) <= max_

\* C4 witness: the cache is full after a load whose eviction pass dropped a key
C4_Witness ==
  /\ max_ > 0 /\ Len(cache) = max_
  /\ \E t \in Tasks, k \in Keys :
       /\ how[t] = "load" /\ pc[t] = "done" /\ oid[t] \in CacheKeys(cache)
       /\ k # oid[t] /\ removed[k] /\ k \notin CacheKeys(cache) /\ nextSess > max_

\* C5 (TTL): with _ttl = T > 0, a lookup whose `now` is later than
\* loaded_at + T removes the entry and does not return: the call goes on to
\* the load (it opens the download, or queues on the per-key lock first).  And
\* whenever a lookup returns a session, now - loaded_at <= T.
C5_TTL ==
  [][ /\ \A t \in Tasks, k \in Keys :
           (IsCall(t, k) /\ ttl_ > 0 /\ k \in CacheKeys(cache)
              /\ clock' - CacheGet(cache, k).loaded_at > ttl_)
           => /\ k \notin CacheKeys(cache')
              /\ pc'[t] \in {"opening", "waiting"}
              /\ how'[t] = "expired"
              /\ LockAvailable(k) => (pc'[t] = "opening" /\ lockHolder'[k] = t)
      /\ \A t \in Tasks :
           (Wake(t) /\ ttl_ > 0 /\ oid[t] \in CacheKeys(cache)
              /\ now[t] - CacheGet(cache, oid[t]).loaded_at > ttl_)
           => /\ oid[t] \notin CacheKeys(cache')
              /\ pc'[t] = "opening" /\ how'[t] = "expired"
      /\ \A t \in Tasks, k \in Keys :
           (IsCall(t, k) /\ pc'[t] = "done" /\ ttl_ > 0)
           => (k \in CacheKeys(cache) /\ clock' - CacheGet(cache, k).loaded_at <= ttl_)
      /\ \A t \in Tasks :
           (Wake(t) /\ pc'[t] = "done" /\ ttl_ > 0)
           => (oid[t] \in CacheKeys(cache)
               /\ now[t] - CacheGet(cache, oid[t]).loaded_at <= ttl_)
    ]_vars

\* C5 witness: a call found its entry expired and its second read of the blob
\* is under way
C5_Witness ==
  \E t \in Tasks :
    /\ ttl_ > 0 /\ how[t] = "expired" /\ pc[t] = "reading"
    /\ oid[t] \notin CacheKeys(cache) /\ nextSess >= 1 /\ clock - now[t] >= 0
    /\ now[t] > ttl_

\* C6 (no negative caching): a load that fails (open, read or construction)
\* leaves the cache as it was, with no entry for the key, releases the per-key
\* lock and ends the call with an error; and a call that finds no entry for its
\* key never returns without loading: it opens the download, or queues on the
\* per-key lock first and opens the download when it gets the lock.
C6_NoNegativeCaching ==
  [][ /\ \A t \in Tasks :
           (OpenFail(t) \/ CloseAfterFailedRead(t) \/ ConstructFail(t))
           => /\ cache' = cache /\ oid[t] \notin CacheKeys(cache')
              /\ pc'[t] = "done" /\ how'[t] = "error" /\ ret'[t] = None
              /\ lockHolder'[oid[t]] = None
      /\ \A t \in Tasks, k \in Keys :
           (IsCall(t, k) /\ k \notin CacheKeys(cache))
           => /\ pc'[t] \in {"opening", "waiting"}
              /\ LockAvailable(k) => (pc'[t] = "opening" /\ lockHolder'[k] = t)
      /\ \A t \in Tasks :
           (Wake(t) /\ oid[t] \notin CacheKeys(cache)) => pc'[t] = "opening"
    ]_vars

\* C6 witness: a load of k failed, a later call for k is reading the blob again
C6_Witness ==
  \E t, u \in Tasks :
    /\ t # u /\ oid[t] = oid[u] /\ pc[t] = "done" /\ how[t] = "error"
    /\ pc[u] = "reading" /\ how[u] = "miss" /\ oid[t] \notin CacheKeys(cache)
    /\ lockHolder[oid[u]] = u

\* ======================================================================
\* Claims about the resolver and the transports

\* the documents of the requested name, and the deployed ones among them
NamedDocs == {i \in 1..Len(models) : models[i].name = OrchName(req)}

DeployedDocs == {i \in NamedDocs : models[i].status = "Deployed"}

Least(S) == CHOOSE i \in S : \A j \in S : i <= j

\* C7: in every collection, when the metadata lookup itself succeeds, the
\* resolver raises ModelNotFound exactly when no document has the name,
\* raises ModelNotDeployed exactly when documents have the name and none is
\* Deployed, and otherwise returns the file_id of a Deployed document of
\* that name.
C7_ResolverContract ==
  [][(ppc = "resolving" /\ ppc' # "resolving" /\ raised' # "PyMongoError") =>
       /\ (NamedDocs = {}) <=> (ppc' = "done" /\ raised' = "ModelNotFoundError")
       /\ (NamedDocs # {} /\ DeployedDocs = {})
            <=> (ppc' = "done" /\ raised' = "ModelNotDeployedError")
       /\ (DeployedDocs # {})
            <=> (/\ ppc' = "loading"
                 /\ raised' = ""
                 /\ \E i \in DeployedDocs : file' = ObjectIdOf(models[i].file_id))]_vars

\* a request for a name that has documents, none of them Deployed, was refused
C7_Witness ==
  /\ ppc = "done"
  /\ raised = "ModelNotDeployedError"
  /\ NamedDocs # {}
  /\ DeployedDocs = {}

\* C8: when two or more documents of the same name are Deployed, the
\* resolver returns the file_id of the first of them in storage order.
C8_FirstDeployedWins ==
  (file # None /\ Cardinality(DeployedDocs) >= 2) =>
    file = ObjectIdOf(models[Least(DeployedDocs)].file_id)

\* the resolver answered for a name with two Deployed documents of
\* different blobs
C8_Witness ==
  /\ ppc = "loading"
  /\ file # None
  /\ \E i, j \in DeployedDocs : i < j /\ models[i].file_id # models[j].file_id

\* C9: every request ends with exactly one status, on either transport:
\* ModelNotFound gives 404 / NOT_FOUND, ModelNotDeployed gives
\* 400 / FAILED_PRECONDITION, InvalidInput gives 400 / INVALID_ARGUMENT and
\* any other failure of the orchestrator (store error, blob read or session
\* construction failure, runtime failure) gives 500 / INTERNAL.
C9_ErrorTranslation ==
  ppc = "done" =>
    /\ req.transport = "rest" =>
         /\ code = ""
         /\ http \in {200, 400, 404, 500}
         /\ raised = "none" => http \in {200, 500}
         /\ raised = "ModelNotFoundError" => http = 404
         /\ raised = "ModelNotDeployedError" => http = 400
         /\ raised = "InvalidInputError" => http = 400
         /\ raised \notin {"none", "ModelNotFoundError", "ModelNotDeployedError",
                           "InvalidInputError"} => http = 500
    /\ req.transport = "grpc" =>
         /\ http = 0
         /\ code \in {"OK", "NOT_FOUND", "FAILED_PRECONDITION", "INVALID_ARGUMENT",
                      "INTERNAL"}
         /\ raised = "none" => code \in {"OK", "INTERNAL"}
         /\ raised = "ModelNotFoundError" => code = "NOT_FOUND"
         /\ raised = "ModelNotDeployedError" => code = "FAILED_PRECONDITION"
         /\ raised = "InvalidInputError" => code = "INVALID_ARGUMENT"
         /\ raised \notin {"", "none", "ModelNotFoundError", "ModelNotDeployedError",
                           "InvalidInputError"} => code = "INTERNAL"

\* an RPC for a name with no Deployed document ended FAILED_PRECONDITION
C9_Witness ==
  /\ ppc = "done"
  /\ req.transport = "grpc"
  /\ raised = "ModelNotDeployedError"
  /\ code = "FAILED_PRECONDITION"

\* C10: a Predict RPC with an empty model_name, with empty dims or with
\* data_type STRING ends INVALID_ARGUMENT without reaching the orchestrator,
\* whatever the collection holds and whatever the model declares.
C10_PredictPrechecks ==
  (/\ ppc # "idle"
   /\ req.transport = "grpc"
   /\ (req.model_name = "" \/ req.dims = <<>> \/ req.data_type = "DT_STRING")) =>
    /\ ppc = "done"
    /\ code = "INVALID_ARGUMENT"
    /\ raised = ""
    /\ file = None

\* a well-formed RPC for a deployed model, but with data_type STRING, was
\* refused
C10_Witness ==
  /\ ppc = "done"
  /\ req.transport = "grpc"
  /\ req.data_type = "DT_STRING"
  /\ req.model_name # ""
  /\ req.dims # <<>>
  /\ DeployedDocs # {}
  /\ code = "INVALID_ARGUMENT"

\* ======================================================================
\* Claims about the orchestrator's validation

\* the request carries an explicit dtype that is not the model's
ExplicitDtypeMismatch ==
  /\ RequestDtype(req) # "None"
  /\ RequestDtype(req) # ONNX_TO_NP(sig.type)

\* C11: a request that reaches validation with an explicit dtype tag other
\* than the model's input element type fails with InvalidInput (400 /
\* INVALID_ARGUMENT) and the model is not executed.
C11_DtypeMismatchRejected ==
  (ppc = "done" /\ sig # NoSig /\ ExplicitDtypeMismatch) =>
    /\ raised = "InvalidInputError"
    /\ ~ran
    /\ req.transport = "rest" => http = 400
    /\ req.transport = "grpc" => code = "INVALID_ARGUMENT"

\* C12: decoding fails with InvalidInput when dims is empty or the content
\* length is not product(dims) * element size; in every other case, zero and
\* negative dims included, it gives a tensor of shape dims or fails with
\* InvalidInput, never with another error.
C12_DecodeValidation ==
  cpc = "decoded" =>
    /\ (cdims = <<>> \/ Len(cbuf) # Prod(cdims) * ElemSize(ctag))
         => cerr = "InvalidInputError"
    /\ cerr \in {"none", "InvalidInputError"}
    /\ cerr = "none" => cout.shape = cdims

\* C13: a request validated against a model whose declared input shape has
\* another rank than the tensor (a declared rank of 0 included) fails with
\* InvalidInput; with equal ranks the request passes the shape check only if
\* every declared dimension is a wildcard or equals the actual one.
C13_ShapeCheck ==
  (ppc = "done" /\ sig # NoSig) =>
    /\ Len(sig.shape) # Len(req.dims) => raised = "InvalidInputError"
    /\ (Len(sig.shape) = Len(req.dims) /\ ran) =>
         \A i \in 1..Len(sig.shape) :
           IsWildcard(sig.shape[i]) \/ sig.shape[i].v = req.dims[i]

\* ======================================================================
\* Claims about the lifecycle

ShutdownOrder == <<"health", "cancel", "cancel", "stop", "close">>

\* the steps done so far are the first n of the order, then possibly the close
InOrder(n) ==
  \/ steps = SubSeq(ShutdownOrder, 1, n)
  \/ n >= 1 /\ steps = SubSeq(ShutdownOrder, 1, n) \o <<"close">>

\* C14: after the first termination signal the server sets health to
\* NOT_SERVING, cancels the background tasks, stops the gRPC server and
\* closes the metadata-store client, in this order and only after a signal;
\* unless a second signal forces the exit, the client is eventually closed,
\* also when an earlier step raises.
C14_ShutdownOrder ==
  /\ [](/\ \E n \in 0..Len(ShutdownOrder) : InOrder(n)
        /\ (steps # <<>> => shutting_down)
        /\ (client = "closed" <=> (steps # <<>> /\ steps[Len(steps)] = "close")))
  /\ (shutting_down ~> (client = "closed" \/ forced))

\* a step raised before server.stop was called and the client was closed
C14_Witness ==
  /\ sraised
  /\ steps = <<"health", "cancel", "cancel", "close">>
  /\ client = "closed"
  /\ ~forced

\* a signal that finds the shutdown already begun
SecondSignal == signals' = signals + 1 /\ shutting_down

\* the exit is immediate and runs no cleanup step
ForcedExitStep ==
  /\ SecondSignal =>
       (/\ spc' = "exited"
        /\ exitcode' = 1
        /\ forced'
        /\ UNCHANGED <<steps, client, health, mon, dbg>>)
  /\ forced => UNCHANGED <<steps, client, exitcode>>

ForcedExit == [][ForcedExitStep]_vars

\* C15 as stated: a second signal after the first exits at once with code 1
\* and no cleanup, and a shutdown that sees only one signal ends with exit
\* code 0.
C15_TwoPhaseShutdown_Original ==
  /\ ForcedExit
  /\ []((spc = "exited" /\ signals = 1) => exitcode = 0)

\* C15, amended: a second signal after the first exits at once with code 1
\* and no cleanup step runs after it; a shutdown that sees only one signal
\* and in which no step raises ends with exit code 0 and the client closed.
C15_TwoPhaseShutdown ==
  /\ ForcedExit
  /\ []((spc = "exited" /\ signals = 1 /\ ~sraised) =>
          (exitcode = 0 /\ client = "closed" /\ steps = ShutdownOrder))
  /\ []((spc = "exited" /\ signals = 1 /\ sraised) => exitcode = 1)

\* the second signal came in the middle of the cleanup: the client stays open
C15_Witness ==
  /\ forced
  /\ exitcode = 1
  /\ steps = <<"health", "cancel", "cancel", "stop">>
  /\ client = "open"

\* an iteration of the monitor leaves both names with the ping's outcome,
\* and no step makes the two names differ
ReadinessStep ==
  /\ pings' = pings + 1 =>
       (\A n \in HealthNames :
          health'[n] = (IF lastPing' = "ok" THEN "SERVING" ELSE "NOT_SERVING"))
  /\ health'[""] = health'[FullyQualifiedService]

\* C16: the health service starts NOT_SERVING for the empty name and for the
\* inference service; after every iteration of the readiness monitor both
\* names carry the same status, SERVING iff that iteration's ping succeeded.
C16_Readiness ==
  /\ \A n \in HealthNames : health[n] = "NOT_SERVING"
  /\ [][ReadinessStep]_vars

\* a second iteration's ping failed after the first succeeded
C16_Witness ==
  /\ pings = 2
  /\ lastPing = "failed"
  /\ \A n \in HealthNames : health[n] = "NOT_SERVING"
  /\ ~shutting_down

\* ======================================================================
\* Claims about the tensor codec

\* the encoded length is product(shape) * element size
EncodedLength == Len(cbuf) = Prod(carr.shape) * ElemSize(carr.dtype)

\* decoding gave back the tensor that was encoded, element by element
RoundTrip ==
  /\ cerr = "none"
  /\ cout.dtype = carr.dtype
  /\ cout.shape = carr.shape
  /\ cout.elems = carr.elems

ZeroCapacityStep ==
  /\ \A t \in Tasks :
       LoadComplete(t) => (oid[t] \in CacheKeys(cache'))
  /\ \A t \in Tasks, k \in Keys :
       (IsCall(t, k) /\ k \in CacheKeys(cache))
         => (how'[t] = "hit" /\ ret'[t] = CacheGet(cache, k).session
               /\ nextSess' = nextSess /\ pc'[t] = "done")
  /\ \A k \in Keys :
       (k \in CacheKeys(cache) /\ k \notin CacheKeys(cache'))
         => (Invalidate(k) \/ Clear)

C17_OneDeployedPerName ==
  \A n \in ModelNames :
    Len(SelectSeq(models, LAMBDA d : d.name = n /\ d.status = "Deployed")) <= 1

\* C18: every version is positive, and a document's version is strictly
\* greater than the version of every document of the same name inserted
\* before it, so that no two documents of a name share a version.
C18_VersionsIncrease ==
  /\ \A i \in 1..Len(created) : created[i].version >= 1
  /\ \A i, j \in 1..Len(created) :
       (i < j /\ created[i].name = created[j].name)
         => (created[i].version < created[j].version)

\* ======================================================================
\* Claims about concurrent get_session calls, with cancellation

\* the phase between the confirmed miss under the per-key lock and the
\* insert or the failure
Loading(t) ==
  pc[t] \in {"opening", "reading", "closing_ok", "closing_err", "closing_cancelled"}

\* a suspended call waits only behind a call for its own key
WaitsOnOwnKey ==
  \A t \in Tasks : pc[t] = "waiting" =>
    LET k == oid[t] IN
      \/ lockHolder[k] # None /\ oid[lockHolder[k]] = k /\ Loading(lockHolder[k])
      \/ lockHolder[k] = None /\ ENABLED Wake(Head(lockWaiters[k]))

\* a call for a key nobody is loading or waiting for is not suspended behind
\* another key's load: it returns a hit or starts its own load
DistinctKeyStep ==
  \A t \in Tasks, k \in Keys :
    (IsCall(t, k) /\ lockHolder[k] = None /\ lockWaiters[k] = <<>>)
      => (pc'[t] \in {"done", "opening"})

\* C21: while a load for key K1 is in flight, a get_session(K2) for another
\* key K2 completes as a hit or as its own load without waiting for K1: a
\* call is suspended only behind a call for the same key, and a call for a
\* key whose lock is free goes straight to its hit or its load.
C21_DistinctKeysInParallel == []WaitsOnOwnKey /\ [][DistinctKeyStep]_vars

\* C21 witness: the load of key 1 is still reading while a call for key 2,
\* first asked for after key 1, has loaded and returned
C21_Witness ==
  \E t, u \in Tasks :
    /\ pc[u] = "reading" /\ oid[u] = 1 /\ opens[1] = 1 /\ ~removed[1]
    /\ pc[t] = "done" /\ oid[t] = 2 /\ how[t] = "load"
    /\ 2 \in CacheKeys(cache) /\ CacheGet(cache, 2).session = ret[t]

\* C22: for every key at most one task is in the loading phase (between the
\* confirmed miss under the per-key lock and the insert or the failure), and
\* that task holds the key's lock; this also after load failures,
\* cancellations, invalidate and clear.
C22_OneLoaderPerKey ==
  \A k \in Keys :
    /\ Cardinality({t \in Tasks : Loading(t) /\ oid[t] = k}) <= 1
    /\ \A t \in Tasks : (Loading(t) /\ oid[t] = k) => lockHolder[k] = t

\* C22 witness: after an entry of the key was dropped or a load of it failed
\* or was cancelled, one task loads the key while another waits for it
C22_Witness ==
  \E t, u \in Tasks :
    /\ Loading(t) /\ pc[u] = "waiting" /\ oid[u] = oid[t]
    /\ removed[oid[t]]
    /\ \E a \in acc : a.op = "clear"

\* a step a call in flight takes by itself or on the store's answer
Progress ==
  \E t \in Tasks :
    \/ Wake(t) \/ OpenOk(t) \/ OpenFail(t) \/ ReadDone(t, TRUE)
    \/ CloseAfterFailedRead(t) \/ LoadComplete(t) \/ CloseAfterCancelledRead(t)

\* C23: the per-key lock is never asked for while the global lock is held,
\* the global lock is taken with the per-key lock already held whenever both
\* are needed (the re-check and the insert), and no state in which a
\* get_session call is in flight is a deadlock: some call can take a step.
C23_LockOrder ==
  /\ \A a \in acc : a.op = "acquire_key" => ~a.global /\ ~a.key
  /\ \A a \in acc : a.op \in {"insert", "evict"} => a.global /\ a.key
  /\ \A a \in acc : a.op = "acquire_global" => ~a.global
  /\ (\E t \in Tasks : InFlight(t) \/ Loading(t)) => ENABLED Progress

\* C23 witness: a task took the global lock for its insert while holding the
\* per-key lock another task is queued for
C23_Witness ==
  /\ \E a \in acc : a.op = "acquire_global" /\ a.key
  /\ \E a \in acc : a.op = "insert"
  /\ \E t \in Tasks : pc[t] = "waiting"

\* ======================================================================
\* Claims about the guarding of the cache map

\* C24: every mutation of the cache map (insert, touch, expiry pop, eviction,
\* invalidate, clear) is made with the global lock held, and so is the read
\* of the entry on which a lookup bases its expiry check and its touch.
C24_GuardedByGlobalLock ==
  \A a \in acc :
    a.op \in {"insert", "touch", "pop", "evict", "clear", "get"} => a.global

\* ======================================================================
\* Claims about the download stream

\* C25: on every path of the load on which a download stream was opened and
\* read (the read returned or raised), close() is invoked, and awaited,
\* before get_session goes on or raises; an error of close() neither
\* replaces the read error nor makes a load fail whose read succeeded.
C25_StreamReleased ==
  \A t \in Tasks :
    /\ (rd[t] \in {"ok", "failed"}) => (cl[t] # "none")
    /\ (rd[t] \in {"ok", "failed"} /\ pc[t] = "done" /\ how[t] # "cancelled")
         => (cl[t] \in {"ok", "raised"})
    /\ (rd[t] = "failed" /\ pc[t] = "done" /\ how[t] # "cancelled")
         => (how[t] = "error" /\ err[t] = "read")
    /\ (rd[t] = "ok" /\ pc[t] = "done" /\ how[t] # "cancelled")
         => (how[t] = "load" \/ (how[t] = "error" /\ err[t] = "construct"))

\* ======================================================================
\* Claims about the file id

\* C26: every well-formed representation of a blob identifier (the ObjectId,
\* its string form) gives the same cache key, and an unparseable identifier
\* makes the call fail with InvalidInput, reported as HTTP 400 and
\* INVALID_ARGUMENT, with no cache entry and no per-key lock made for it.
C26_KeyNormalization ==
  \A t \in Tasks :
    /\ \A k \in Keys : (arg[t] \in FileIdsOf(k)) => (oid[t] = k)
    /\ (arg[t] \in BadFileIds) =>
         /\ pc[t] = "done" /\ how[t] = "error" /\ oid[t] = None
         /\ err[t] = "InvalidInputError"
         /\ RestStatus(err[t]) = 400
         /\ GrpcStatus(err[t]) = "INVALID_ARGUMENT"

\* ======================================================================
\* Claims about a cache constructed with its limits switched off

\* C27: a ModelCache constructed with max_entries <= 0 never evicts on size
\* and one constructed with ttl_seconds = 0 never expires an entry, whatever
\* MODEL_CACHE_MAX and MODEL_CACHE_TTL are.
C27_LimitsDisabled ==
  \A a \in acc : a.op # "evict" /\ ~(a.op = "pop" /\ a.global)

\* ======================================================================
\* Claims about the name a request carries

\* the resolver has answered the request (the store did not fail)
ResolverAnswered ==
  \/ ppc \in {"loading", "validating"}
  \/ ppc = "done" /\ raised \notin {"", "PyMongoError"}

\* C28: on the JSON path and on the RPC path alike the name received in the
\* request is matched exactly, with no normalization: a request whose name,
\* as received, is the name of no document (it differs, say, by leading
\* whitespace) is answered ModelNotFound.
C28_ExactNameMatch ==
  (ResolverAnswered /\ \A i \in 1..Len(models) : models[i].name # req.model_name)
    => (raised = "ModelNotFoundError")

\* ======================================================================
\* Claims about cancellation

\* get_session is suspended: in lk.acquire(), in open_download_stream, in
\* read() or in the awaited close()
Suspended(t) == pc[t] = "waiting" \/ Loading(t)

\* the step in which CancelledError leaves the suspended get_session of t
CancelStep(t) == Suspended(t) /\ pc'[t] = "done" /\ how'[t] = "cancelled"

\* the cancelled call gives up its lock or its place in the queue, touches
\* nobody else's, and leaves the cache as it was
CancelReleases ==
  \A t \in Tasks : CancelStep(t) =>
    /\ cache' = cache
    /\ ret'[t] = None
    /\ \A k \in Keys :
         /\ lockHolder'[k] = IF lockHolder[k] = t THEN None ELSE lockHolder[k]
         /\ lockWaiters'[k] = SelectSeq(lockWaiters[k], LAMBDA u : u # t)

\* locks and queues belong to calls still in flight, and the first waiter of
\* a free lock can take it
WaitersProceed ==
  \A k \in Keys :
    /\ lockHolder[k] # None => Loading(lockHolder[k]) /\ oid[lockHolder[k]] = k
    /\ \A i \in 1..Len(lockWaiters[k]) :
         pc[lockWaiters[k][i]] = "waiting" /\ oid[lockWaiters[k][i]] = k
    /\ (lockHolder[k] = None /\ lockWaiters[k] # <<>>)
         => ENABLED Wake(Head(lockWaiters[k]))

\* C29: cancelling a get_session call at a suspension point (waiting for the
\* per-key lock, opening or reading the blob, closing it) releases every lock
\* the call holds and changes no cache entry; the callers waiting on the same
\* key then proceed: no lock or queue place is left to a call that is over.
C29_CancellationReleases == []WaitersProceed /\ [][CancelReleases]_vars

\* C29 witness: of two calls for one key the first was cancelled in read()
\* while the second was queued behind it; the second has just been woken,
\* holds the lock and opens the blob, the cache being as the cancel left it
C29_Witness ==
  \E t, u \in Tasks :
    /\ t # u /\ oid[t] = oid[u] /\ calls = 2
    /\ pc[t] = "done" /\ how[t] = "cancelled" /\ rd[t] = "cancelled"
    /\ pc[u] = "opening" /\ lockHolder[oid[u]] = u
    /\ AcquireKey \notin acc /\ Access("get", FALSE, TRUE) \in acc
    /\ cache = <<>>

\* ======================================================================
\* Claims about the timestamps of an entry

\* C30: in every reachable state every cache entry has loaded_at <= last_used,
\* whatever the interleaving of the get_session calls, each of which captures
\* its `now` once at entry from a clock that does not run backwards.
C30_LoadedBeforeUsed ==
  \A i \in 1..Len(cache) : cache[i].loaded_at <= cache[i].last_used

\* C30 witness: a call that waited for the key's lock found, at its re-check,
\* the entry another call had loaded with an earlier `now`, and touched it
C30_Witness ==
  \E t \in Tasks :
    /\ pc[t] = "done" /\ how[t] = "hit_postlock"
    /\ oid[t] \in CacheKeys(cache)
    /\ CacheGet(cache, oid[t]).loaded_at < CacheGet(cache, oid[t]).last_used
    /\ Access("touch", TRUE, TRUE) \in acc

\* ======================================================================
\* Claims about cache epochs

\* the session handles stored in cache c
Sessions(c) == {c[i].session : i \in 1..Len(c)}

\* every stored handle has been handed out by a construction that is over
HandlesKnown == \A s \in Sessions(cache) : s <= nextSess

\* while a key has an entry no load of it is in flight: a load that ends
\* after an entry of its key was removed began after the removal
NoLoadOfCachedKey == \A t \in Tasks : Loading(t) => oid[t] \notin CacheKeys(cache)

\* a handle enters the cache only as the one just constructed; a lookup
\* returns the handle of the entry its key has now, a load the one it built
EpochStep ==
  /\ \A s \in Sessions(cache') \ Sessions(cache) : s > nextSess
  /\ \A i \in 1..Len(cache') :
       (cache'[i].session \in Sessions(cache))
         => (/\ cache'[i].oid \in CacheKeys(cache)
             /\ CacheGet(cache, cache'[i].oid).session = cache'[i].session)
  /\ \A t \in Tasks, k \in Keys :
       (IsCall(t, k) /\ ret'[t] # None)
         => (k \in CacheKeys(cache) /\ ret'[t] = CacheGet(cache, k).session)
  /\ \A t \in Tasks :
       (Wake(t) /\ ret'[t] # None)
         => (oid[t] \in CacheKeys(cache) /\ ret'[t] = CacheGet(cache, oid[t]).session)
  /\ \A t \in Tasks :
       (Loading(t) /\ ret'[t] # None) => (ret'[t] > nextSess)

\* C31: a session is never shared across cache epochs: a handle whose entry
\* was removed (invalidate, clear, expiry, eviction) is never stored again,
\* since a handle enters the cache only when freshly constructed, and a
\* get_session that starts after the removal returns the handle of the
\* entry present at its lookup or the one its own load constructs, a load
\* that began after the removal because none is in flight while the key has
\* an entry.
C31_NoSessionAcrossEpochs ==
  []HandlesKnown /\ []NoLoadOfCachedKey /\ [][EpochStep]_vars

\* C31 witness: key 1 was loaded, its entry removed, and the next call for
\* key 1 loaded again: the entry and the call's result are the second handle
C31_Witness ==
  \E t \in Tasks :
    /\ calls = 2 /\ nextSess = 2 /\ removed[1]
    /\ pc[t] = "done" /\ how[t] = "load" /\ oid[t] = 1 /\ ret[t] = 2
    /\ CacheKeys(cache) = {1} /\ CacheGet(cache, 1).session = 2

\* ======================================================================
\* Claims about the startup of the server process

\* C32: the readiness monitor is started only after the listener is bound
\* and the acceptor started: while server.start() has not returned the
\* monitor has made no ping, is not pinging or sleeping, and both health
\* names still hold the NOT_SERVING they were registered with.
C32_StartupOrder ==
  (spc = "starting")
    => (/\ mon \notin {"pinging", "sleeping"}
        /\ pings = 0
        /\ \A n \in HealthNames : health[n] = "NOT_SERVING")

\* ======================================================================
\* Claims about the LRU timestamp

\* an entry that a step leaves in the cache, the same key with the same
\* session, does not get a smaller last_used
LastUsedStep ==
  \A k \in CacheKeys(cache) \cap CacheKeys(cache') :
    (CacheGet(cache', k).session = CacheGet(cache, k).session)
      => (CacheGet(cache', k).last_used >= CacheGet(cache, k).last_used)

\* C33: last_used of a cache entry never decreases during the entry's
\* lifetime: a touch by a caller whose `now` is older than the entry's
\* last_used (a waiter re-checking after the per-key lock, say) does not
\* overwrite the larger value with the smaller one.
C33_LastUsedMonotone == [][LastUsedStep]_vars

\* ======================================================================
\* Claims about the eviction pass of a load

\* get_session of t returns from a successful load in this step
LoadReturns(t) == pc[t] # "done" /\ pc'[t] = "done" /\ how'[t] = "load"

\* the key just loaded has its entry when the call returns
LoadedKeyStays ==
  \A t \in Tasks : (LoadReturns(t) /\ max_ >= 1) => (oid[t] \in CacheKeys(cache'))

\* C34: with capacity >= 1 the entry a load has just inserted is not the one
\* its own eviction pass removes: when get_session(K) returns from a
\* successful load, K is in the cache, whatever lookups of other keys ran
\* during the load.
C34_LoadedKeyPresent == [][LoadedKeyStays]_vars

\* ======================================================================
\* Claims about the expiry pop

\* the lookup of t for key k runs in this step: the one at call entry or the
\* re-check after the wait for the per-key lock
LooksUp(t, k) == IsCall(t, k) \/ (Wake(t) /\ oid[t] = k)

\* a lookup that leaves its key without entry has popped the entry it found,
\* which was older than the TTL at the caller's `now`, and nothing else
ExpiryPopStep ==
  \A t \in Tasks, k \in Keys :
    (LooksUp(t, k) /\ k \in CacheKeys(cache) /\ k \notin CacheKeys(cache'))
      => (/\ ttl_ > 0
          /\ now'[t] - CacheGet(cache, k).loaded_at > ttl_
          /\ cache' = CachePop(cache, k)
          /\ \E a \in acc' : a.op = "pop" /\ a.global)

\* C35: the pop of a lookup that saw an expired entry for K removes that
\* entry and no fresher one: expiry check and pop happen in one step of the
\* caller (the global lock is never contended, so nothing runs in between),
\* and the entry removed is older than the TTL at the caller's `now`.
C35_PopsOnlyExpired == [][ExpiryPopStep]_vars

\* C35 witness: a caller that waited for the key's lock found at its
\* re-check the entry the previous holder inserted already expired for its
\* own `now`, popped it and went on to load
C35_Witness ==
  \E t \in Tasks :
    /\ pc[t] = "opening" /\ how[t] = "expired"
    /\ oid[t] \notin CacheKeys(cache)
    /\ Access("pop", TRUE, TRUE) \in acc

\* ======================================================================
\* Claims about the termination of get_session

\* what the event loop and the store do for a call in flight: the freed lock
\* goes to its first waiter, and every open, read, close and construction
\* ends, well or badly
CallProgress(t) ==
  \/ Wake(t) \/ OpenOk(t) \/ OpenFail(t)
  \/ \E ok \in BOOLEAN : ReadDone(t, ok)
  \/ CloseAfterFailedRead(t) \/ ConstructFail(t) \/ LoadComplete(t)
  \/ CloseAfterCancelledRead(t)

\* get_session under a fair event loop and a store whose operations end
SpecLive ==
  /\ Init /\ [][NextSessions]_vars
  /\ \A t \in Tasks : WF_vars(CallProgress(t) /\ UNCHANGED exceptCache)

\* C36: under fair scheduling, every blob open, read and close and every
\* session construction ending with success or failure, every get_session
\* call in flight eventually returns or raises: nobody waits forever for a
\* lock, also behind loaders of the same key that failed or were cancelled.
C36_GetSessionTerminates ==
  \A t \in Tasks : (Suspended(t)) ~> (pc[t] = "done")

\* C36 witness: of two calls for one key the first raised a load error
\* while the second was queued behind it; the second has been woken and
\* holds the lock
C36_Witness ==
  \E t, u \in Tasks :
    /\ t # u /\ oid[t] = oid[u] /\ calls = 2
    /\ pc[u] = "done" /\ how[u] = "error" /\ err[u] # ""
    /\ pc[t] = "opening" /\ lockHolder[oid[t]] = t
    /\ AcquireKey \notin acc /\ Access("get", FALSE, TRUE) \in acc

\* ======================================================================
\* Claims about the deployment check and the session cache

\* what a request through the orchestrator leaves alone in the cache object
cacheRest == <<max_, ttl_, lockHolder, lockWaiters, clock, pc, oid, now, ret, how,
               opens, reads, built, calls, removed, clean, loadSeq, acc, rd, cl, err>>

\* _load_session on the orchestrator's cache, one request at a time: a
\* cached session is returned without the store being asked, a missing one
\* is loaded and cached unless the read or the construction fails
LoadSessionCached(outcome, s) ==
  /\ LoadSession(outcome, s)
  /\ LET r == GetIfFresh(cache, file, clock, ttl_)
     IN  IF r.sess # None
         THEN outcome = "loaded" /\ cache' = r.cache /\ UNCHANGED nextSess
         ELSE IF outcome = "loaded"
              THEN /\ cache' = InsertAndEvict(r.cache, file, nextSess + 1, clock, max_)
                   /\ nextSess' = nextSess + 1
              ELSE cache' = r.cache /\ UNCHANGED nextSess
  /\ UNCHANGED cacheRest

\* a collection with its blobs, as uploads and deployments left it
CatalogOf(ms) ==
  /\ dpc = [c \in Clients |-> "idle"]
  /\ dop = [c \in Clients |-> NoOp]
  /\ dres = [c \in Clients |-> 0]
  /\ blobs = {ObjectIdOf(ms[i].file_id) : i \in 1..Len(ms)}
  /\ nextId = Len(ms) + 1
  /\ nextFile = Len(ms) + 1
  /\ created = [i \in 1..Len(ms) |-> [name |-> ms[i].name, version |-> ms[i].version]]
  /\ ops = 0

InitDeployCheck ==
  CacheAtRest /\ PredictInit /\ CodecIdle /\ ServeAtRest /\ CatalogOf(models)

exceptRequest == <<nvars, xvars, svars, dvars>>

\* requests through both transports while versions are undeployed and deleted
NextDeployCheck ==
  \/ \E mn \in ModelNames : Infer(mn, <<2>>, "None") /\ UNCHANGED exceptPredict
  \/ \E mn \in ModelNames \cup {" a.onnx"} :
       Predict(mn, <<2>>, "DT_FLOAT32") /\ UNCHANGED exceptPredict
  \/ \E ok \in BOOLEAN : Resolve(ok) /\ UNCHANGED exceptPredict
  \/ \E o \in {"loaded", "read_failed"} :
       LoadSessionCached(o, Sig("x", "tensor(float)", <<IntDim(2)>>))
         /\ UNCHANGED exceptRequest
  \/ \E runOk \in BOOLEAN : OrchRun(TRUE, runOk, TRUE) /\ UNCHANGED exceptPredict
  \/ \E runOk \in BOOLEAN : OrchRunFromBytes("", 8, runOk, TRUE) /\ UNCHANGED exceptPredict
  \/ \E c \in Clients, n \in ModelNames, v \in Versions :
       UndeployFind(c, n, v) /\ UNCHANGED exceptCatalog
  \/ \E c \in Clients : UndeployUpdate(c) /\ UNCHANGED exceptCatalog
  \/ \E c \in Clients, n \in ModelNames, v \in Versions :
       DeleteFind(c, n, v) /\ UNCHANGED exceptCatalog
  \/ \E c \in Clients : DeleteBlob(c) /\ UNCHANGED exceptCatalog
  \/ \E c \in Clients : DeleteDoc(c) /\ UNCHANGED exceptCatalog

SpecDeployCheck == InitDeployCheck /\ [][NextDeployCheck]_vars

\* a document named n is Deployed
DeployedNamed(ms, n) == \E i \in 1..Len(ms) : ms[i].name = n /\ ms[i].status = "Deployed"

\* the resolve step of run / run_from_bytes, the store having answered: with
\* a Deployed document of the name the request goes on with its file, with
\* none it ends in ModelNotDeployed or ModelNotFound, whatever is cached
ResolveStep ==
  (ppc = "resolving" /\ ppc' # "resolving" /\ raised' # "PyMongoError")
    => IF DeployedNamed(models, OrchName(req))
       THEN ppc' = "loading" /\ file' # None
       ELSE /\ ppc' = "done" /\ file' = None
            /\ raised' \in {"ModelNotDeployedError", "ModelNotFoundError"}

\* the session is looked up and run only for a file the resolver returned
\* for this request
RunsResolved ==
  /\ ppc \in {"loading", "validating"} => file # None
  /\ ran => file # None
  /\ ppc = "resolving" => file = None /\ ~ran

\* C37: the cache never bypasses the deployment check: a request executes a
\* model only if at its resolve step a document with the name it gave the
\* orchestrator was Deployed, and once undeploy or delete has left the name
\* without Deployed document the request fails with ModelNotDeployed or
\* ModelNotFound although the session of the former blob is still cached.
C37_NoBypassOfDeployCheck == []RunsResolved /\ [][ResolveStep]_vars

\* C37 witness: a document was undeployed, the session of its blob is still
\* cached, and a request for its name has failed with ModelNotDeployed
C37_Witness ==
  /\ ppc = "done" /\ raised = "ModelNotDeployedError"
  /\ \E c \in Clients : dres[c] = 200
  /\ \E i \in 1..Len(models) :
       /\ models[i].name = OrchName(req)
       /\ ObjectIdOf(models[i].file_id) \in CacheKeys(cache)

\* ======================================================================
\* Claims about the health status during shutdown

\* C38: once the graceful shutdown has set the health status to NOT_SERVING
\* it never becomes SERVING again: the readiness monitor writes no SERVING
\* after that point, even if a ping was in flight when the signal arrived.
C38_NotServingIsFinal ==
  (steps # <<>>) => (\A n \in HealthNames : health[n] = "NOT_SERVING")

\* ======================================================================
\* Claims about deploy_model

\* the update of a deploy_model request sets Deployed only documents of the
\* name the request gave
DeployModelStep ==
  \A c \in Clients : DeployModelUpdate(c) =>
    (\A i \in 1..Len(models) :
       (models'[i].status = "Deployed" /\ models[i].status # "Deployed")
         => (models[i].name = dop[c].name))

\* C39: deploy_model(model_name, model_id) sets status Deployed only on a
\* document whose name is model_name: the check for an already deployed
\* version and the update refer to the same name, so a model_id that belongs
\* to a document of another name never deploys that document.
C39_DeploySameName == [][DeployModelStep]_vars

====
